---- MODULE Spec2Model ----
(***************************************************************************)
(* Model of the image manager: dependency ordering of the managed images   *)
(* (manager/dependency_graph.py), the generate command                     *)
(* (manager/__main__.py), package locking (manager/locking.py), the        *)
(* rootfs overlays (manager/rootfs.py) and the resolution of an image      *)
(* configuration (manager/models.py).                                      *)
(***************************************************************************)
EXTENDS Integers, Sequences, FiniteSets, TLC

VARIABLES
    dependencies,   \* argument of topological_sort: [keys: insertion order, deps: key -> set]
    topoResult,     \* what topological_sort returned or raised
    images,         \* the list of resolved Image objects
    sortResult,     \* what sort_images returned or raised
    gpc,            \* where the generate command stands
    cursor,         \* index into sorted_images of the image being generated
    written,        \* the kinds of output files generate has written so far
    exitCode,       \* exit code of the command, None while it runs
    seriesCache,    \* _series_cache: None or the release -> codename table
    cpc,            \* per caller of get_ubuntu_codename: where it stands
    carg,           \* per caller: the version it asked for
    fetched,        \* per caller: the table its own request was answered with
    answer,         \* per caller: what its last call returned or raised
    fetches,        \* requests for the table the remote service has answered
    held,           \* the tables _series_cache has held so far
    calls,          \* calls of get_ubuntu_codename started so far
    poolStatus,     \* per package in submit order: new, queued, running, or its result
    poolOpen,       \* TRUE until the executor's with-block is left
    lockFile,       \* the bases mapping of packages.lock: base -> section or Absent
    lockEnv,        \* the bases of the tags, their packages, the release table
    lpc,            \* where run_lock stands
    lrun,           \* number of the current run_lock
    lidx,           \* index into the bases of the tags
    existingBases,  \* existing_bases of the current run
    basesData,      \* bases_data of the current run
    queries,        \* <<run, base, kind>> of every remote query issued
    answers,        \* <<run, base, package, version or None>> of every lookup
    fileBefore,     \* the bases mapping of the file when the current run began
    lexits,         \* the exit codes of the runs that have ended
    locked,         \* run_lock's locked dict: <<package, version>> in insertion order
    notFound,       \* run_lock's not_found list
    builtSection,   \* the section built for the base, NotBuilt before
    rfSources,      \* merge_rootfs: the source trees in list order
    rfDest,         \* merge_rootfs: the destination tree
    rfIdx,          \* merge_rootfs: index of the source being copied
    rfSeen,         \* merge_rootfs: the paths of this source rglob has passed out
    rfStatus,       \* merge_rootfs: idle, merging, returned or raised
    hcRoots,        \* has_rootfs_content: per listed path what the file system holds
    hcResult,       \* has_rootfs_content: "notrun", or what the last call returned
    config,         \* ModelResolver.resolve: the ImageConfig it is given
    resolved,       \* ModelResolver.resolve: the Image it returned, NotResolved before
    mBase,          \* Merger.merge: the map passed as base
    mOverride,      \* Merger.merge: the map passed as override
    mResult,        \* Merger.merge: the map returned, NotMerged before
    alTags,         \* generate_semver_aliases: the names of the tags it is given
    alResult,       \* generate_semver_aliases: the alias map returned, NoAliases before
    aliasFiles,     \* generate: the alias files in the image's output directory, name -> content
    awDict,         \* generate: 0 while image.aliases is written, j while those of variant j are
    awDone,         \* generate: the aliases of the current dict already written
    apc,            \* generate: where the writing of the alias files stands
    trDir,          \* TemplateResolver.resolve: the names of the files in templates_dir
    trExplicit,     \* TemplateResolver.resolve: the argument explicit
    trVariant,      \* TemplateResolver.resolve: the argument variant_name
    trResult,       \* TemplateResolver.resolve: the path returned or the error raised
    brAll,          \* resolve_base_image: ctx.all, the managed images
    brName,         \* resolve_base_image: the name asked for
    brSnapshot,     \* resolve_base_image: ctx.snapshot_id
    brResult,       \* resolve_base_image: what the filter returned or raised
    cliOutcome,     \* how a command that computes the build order ended
    pinLock,        \* generate: the content of the image's packages.lock
    pinBase,        \* generate: the base reference of the rendered build file
    pinWanted,      \* generate: the packages the rendered build file installs
    pinUseLock,     \* generate: False with --no-lock
    pinResult,      \* generate: the pins of the build file written
    distFiles,      \* _get_base_ref: the last FROM of every build file under dist
    distTars,       \* _get_base_ref: what the image.tar next to a build file holds
    gbCur,          \* _get_base_ref: the build file of the innermost call
    gbDepth,        \* _get_base_ref: the number of calls on the stack
    gbResult,       \* _get_base_ref: what the outermost call returned or raised
    srcRootfs,      \* generate: the rootfs directories of image, version and variant
    ctxRootfs,      \* generate: the rootfs tree in the tag's build context
    regenStatus,    \* generate: how the last run ended, or that the sources changed since
    edits,          \* generate: the changes made to the source rootfs directories
    generates       \* generate: the runs of generate

topoVars == <<dependencies, topoResult>>
sortVars == <<images, sortResult>>
genVars  == <<gpc, cursor, written, exitCode>>
cacheVars == <<seriesCache, cpc, carg, fetched, answer, fetches, held, calls>>
poolVars == <<poolStatus, poolOpen>>
lockVars == <<lockFile, lockEnv, lpc, lrun, lidx, existingBases, basesData,
              queries, answers, fileBefore, lexits>>
lockingVars == <<cacheVars, poolVars, lockVars>>
resolveVars == <<locked, notFound, builtSection>>
mergeVars == <<rfSources, rfDest, rfIdx, rfSeen, rfStatus>>
contentVars == <<hcRoots, hcResult>>
resolverVars == <<config, resolved>>
mergerVars == <<mBase, mOverride, mResult>>
aliasVars == <<alTags, alResult>>
pureVars == <<resolverVars, mergerVars, aliasVars>>
\* The state of the further parts of the model, and what each leaves alone.
aliasFileVars == <<aliasFiles, awDict, awDone, apc>>
AliasFileIdle == aliasFiles = <<>> /\ awDict = 0 /\ awDone = {} /\ apc = "idle"
templateVars == <<trDir, trExplicit, trVariant, trResult>>
TemplateIdle == trDir = {} /\ trExplicit = <<>> /\ trVariant = <<>> /\ trResult = <<>>
baseRefVars == <<brAll, brName, brSnapshot, brResult>>
BaseRefIdle == brAll = <<>> /\ brName = "" /\ brSnapshot = <<>> /\ brResult = <<>>
cliVars == <<cliOutcome>>
CliIdle == cliOutcome = <<>>
pinVars == <<pinLock, pinBase, pinWanted, pinUseLock, pinResult>>
PinIdle == pinLock = <<>> /\ pinBase = <<>> /\ pinWanted = {} /\ pinUseLock = FALSE /\ pinResult = <<>>
chainVars == <<distFiles, distTars, gbCur, gbDepth, gbResult>>
ChainIdle == distFiles = <<>> /\ distTars = <<>> /\ gbCur = "" /\ gbDepth = 0 /\ gbResult = <<>>
regenVars == <<srcRootfs, ctxRootfs, regenStatus, edits, generates>>
RegenIdle == srcRootfs = <<>> /\ ctxRootfs = <<>> /\ regenStatus = "" /\ edits = 0 /\ generates = 0
lateVars == <<aliasFileVars, templateVars, baseRefVars, cliVars, pinVars, chainVars, regenVars>>
LateIdle == AliasFileIdle /\ TemplateIdle /\ BaseRefIdle /\ CliIdle /\ PinIdle /\ ChainIdle /\ RegenIdle
otherAliasFileVars == <<templateVars, baseRefVars, cliVars, pinVars, chainVars, regenVars>>
OtherAliasFileIdle == TemplateIdle /\ BaseRefIdle /\ CliIdle /\ PinIdle /\ ChainIdle /\ RegenIdle
otherTemplateVars == <<aliasFileVars, baseRefVars, cliVars, pinVars, chainVars, regenVars>>
OtherTemplateIdle == AliasFileIdle /\ BaseRefIdle /\ CliIdle /\ PinIdle /\ ChainIdle /\ RegenIdle
otherBaseRefVars == <<aliasFileVars, templateVars, cliVars, pinVars, chainVars, regenVars>>
OtherBaseRefIdle == AliasFileIdle /\ TemplateIdle /\ CliIdle /\ PinIdle /\ ChainIdle /\ RegenIdle
otherCliVars == <<aliasFileVars, templateVars, baseRefVars, pinVars, chainVars, regenVars>>
OtherCliIdle == AliasFileIdle /\ TemplateIdle /\ BaseRefIdle /\ PinIdle /\ ChainIdle /\ RegenIdle
otherPinVars == <<aliasFileVars, templateVars, baseRefVars, cliVars, chainVars, regenVars>>
OtherPinIdle == AliasFileIdle /\ TemplateIdle /\ BaseRefIdle /\ CliIdle /\ ChainIdle /\ RegenIdle
otherChainVars == <<aliasFileVars, templateVars, baseRefVars, cliVars, pinVars, regenVars>>
OtherChainIdle == AliasFileIdle /\ TemplateIdle /\ BaseRefIdle /\ CliIdle /\ PinIdle /\ RegenIdle
otherRegenVars == <<aliasFileVars, templateVars, baseRefVars, cliVars, pinVars, chainVars>>
OtherRegenIdle == AliasFileIdle /\ TemplateIdle /\ BaseRefIdle /\ CliIdle /\ PinIdle /\ ChainIdle
\* -- end of the further state --
extVars == <<resolveVars, mergeVars, contentVars, pureVars, lateVars>>
vars == <<topoVars, sortVars, genVars, lockingVars, extVars>>

(***************************************************************************)
(* Bounds and name universes.                                              *)
(***************************************************************************)
\* Names of managed images.
Names == {"a", "b", "c"}
\* A name no managed image has (an external / registry base).
External == {"x"}
AllNames == Names \cup External
\* Largest dependency set of one key of a dependency map.
MaxDeps == 2
\* Longest list of images.
MaxImages == 3
\* Most references (template, variant template, extends) that the images of
\* one list hold together.
MaxRefs == 2

\* Threads that call get_ubuntu_codename in one process.
NumCallers == 2
\* Calls of get_ubuntu_codename in one process.
MaxCalls == 3
\* Most packages the Dockerfiles of one base install.
MaxPkgs == 9
\* Consecutive runs of run_lock over one lock file.
MaxRuns == 2
\* ThreadPoolExecutor(max_workers=8).
MaxWorkers == 8
\* Most packages of a base whose results are followed into its section.
MaxResolvePkgs == 3
\* Longest list of rootfs directories handed to merge_rootfs.
MaxSources == 2
\* Deepest entry beneath a path handed to has_rootfs_content.
MaxDepth == 3
\* Most tags in one image configuration.
MaxTags == 2
\* Changes to the source rootfs directories, and runs of generate over them.
MaxEdits == 3
MaxGenerates == 2
\* The number of nested calls at which the interpreter raises RecursionError,
\* scaled down.
RecursionLimit == 5
\* Most managed images in a render context.
MaxManaged == 2

None == "None"
NotRun == [status |-> "notrun", order |-> <<>>]
\* A base without a section in the lock file.
Absent == [absent |-> TRUE]
\* No section has been built yet.
NotBuilt == [built |-> FALSE]
\* _series_cache before the table is assigned.
NoTable == [none |-> TRUE]

(***************************************************************************)
(* Sequence helpers.                                                       *)
(***************************************************************************)
Range(s) == {s[i] : i \in 1..Len(s)}

IsInjective(s) == \A i, j \in 1..Len(s) : s[i] = s[j] => i = j

\* All orders in which the elements of a finite set can be iterated.
Orderings(S) == {s \in [1..Cardinality(S) -> S] : Range(s) = S}

\* All sequences without repetition over S with at most n elements.
InjectiveSeqs(S, n) ==
    UNION {Orderings(T) : T \in {U \in SUBSET S : Cardinality(U) <= n}}

IndexOf(s, x) == CHOOSE i \in 1..Len(s) : s[i] = x

(***************************************************************************)
(* graphlib.TopologicalSorter as used by topological_sort.                 *)
(* A sorter is [nodes: insertion order of _node2info,                      *)
(*              npred: node -> npredecessors, succ: node -> successors].   *)
(***************************************************************************)
EmptySorter == [nodes |-> <<>>, npred |-> <<>>, succ |-> <<>>]

\* _get_nodeinfo: a node seen for the first time is appended to _node2info.
GetNodeInfo(g, n) ==
    IF n \in Range(g.nodes) THEN g
    ELSE [nodes |-> Append(g.nodes, n),
          npred |-> (n :> 0) @@ g.npred,
          succ  |-> (n :> <<>>) @@ g.succ]

\* The predecessor -> node edges of add(node, *predecessors).
RECURSIVE AddPreds(_, _, _)
AddPreds(g, node, preds) ==
    IF preds = <<>> THEN g
    ELSE LET g1 == GetNodeInfo(g, Head(preds))
             g2 == [g1 EXCEPT !.succ[Head(preds)] = Append(@, node)]
         IN AddPreds(g2, node, Tail(preds))

\* add(node, *predecessors); preds is the set in its iteration order.
SorterAdd(g, node, preds) ==
    LET g1 == GetNodeInfo(g, node)
        g2 == [g1 EXCEPT !.npred[node] = @ + Len(preds)]
    IN AddPreds(g2, node, preds)

\* TopologicalSorter(graph): add every item of the dict in insertion order.
\* iter[k] is the order in which the set graph.deps[k] is iterated.
RECURSIVE SorterInit(_, _, _)
SorterInit(g, keys, iter) ==
    IF keys = <<>> THEN g
    ELSE SorterInit(SorterAdd(g, Head(keys), iter[Head(keys)]), Tail(keys), iter)

\* _find_cycle: iterative depth-first search along successors.  stack and it
\* are the node stack and, per stack entry, the index of the next successor.
RECURSIVE CycleVisit(_, _, _, _, _)
RECURSIVE CycleBacktrack(_, _, _, _)
CycleVisit(g, stack, it, seen, node) ==
    IF node \in seen
    THEN IF node \in Range(stack)
         THEN [found |-> TRUE, seen |-> seen]
         ELSE CycleBacktrack(g, stack, it, seen)
    ELSE CycleBacktrack(g, Append(stack, node), Append(it, 1), seen \cup {node})

CycleBacktrack(g, stack, it, seen) ==
    IF stack = <<>> THEN [found |-> FALSE, seen |-> seen]
    ELSE LET top == stack[Len(stack)]
             k   == it[Len(it)]
         IN IF k <= Len(g.succ[top])
            THEN CycleVisit(g, stack, [it EXCEPT ![Len(it)] = k + 1], seen,
                            g.succ[top][k])
            ELSE CycleBacktrack(g, SubSeq(stack, 1, Len(stack) - 1),
                                SubSeq(it, 1, Len(it) - 1), seen)

RECURSIVE FindCycleLoop(_, _, _)
FindCycleLoop(g, todo, seen) ==
    IF todo = <<>> THEN FALSE
    ELSE IF Head(todo) \in seen THEN FindCycleLoop(g, Tail(todo), seen)
    ELSE LET r == CycleVisit(g, <<>>, <<>>, seen, Head(todo))
         IN IF r.found THEN TRUE ELSE FindCycleLoop(g, Tail(todo), r.seen)

\* TRUE iff _find_cycle returns a cycle.
FindCycle(g) == FindCycleLoop(g, g.nodes, {})

\* Variant of done(): a successor is made ready as soon as any one of its
\* predecessors is done, without looking at the count that is left.
RECURSIVE DoneSuccessorsEager(_, _)
DoneSuccessorsEager(st, succs) ==
    IF succs = <<>> THEN st
    ELSE LET s  == Head(succs)
             s1 == [npred |-> [st.npred EXCEPT ![s] = @ - 1],
                    ready |-> Append(st.ready, s)]
         IN DoneSuccessorsEager(s1, Tail(succs))

\* done(*nodes): every successor loses one predecessor; one that reaches
\* zero is appended to _ready_nodes.  st is [npred, ready].
RECURSIVE DoneSuccessors(_, _)
DoneSuccessors(st, succs) ==
    IF succs = <<>> THEN st
    ELSE LET s  == Head(succs)
             n  == st.npred[s] - 1
             s1 == [npred |-> [st.npred EXCEPT ![s] = n],
                    ready |-> IF n = 0 THEN Append(st.ready, s) ELSE st.ready]
         IN DoneSuccessors(s1, Tail(succs))

RECURSIVE DoneNodes(_, _, _)
DoneNodes(g, st, group) ==
    IF group = <<>> THEN st
    ELSE DoneNodes(g, DoneSuccessors(st, g.succ[Head(group)]), Tail(group))

\* The loop of static_order after prepare(): get_ready(), yield, done().
RECURSIVE StaticOrderLoop(_, _, _)
StaticOrderLoop(g, st, out) ==
    IF st.ready = <<>> THEN out
    ELSE LET group == st.ready
             st1   == DoneNodes(g, [npred |-> st.npred, ready |-> <<>>], group)
         IN StaticOrderLoop(g, st1, out \o group)

\* prepare(): the nodes without predecessors, in _node2info order.
ReadyNodes(g) == SelectSeq(g.nodes, LAMBDA n : g.npred[n] = 0)

\* prepare() without its cycle check: the nodes a cycle blocks are never
\* passed out and the rest is returned.
StaticOrderUnchecked(g) ==
    [status |-> "ok",
     order  |-> StaticOrderLoop(g, [npred |-> g.npred, ready |-> ReadyNodes(g)], <<>>)]

\* list(sorter.static_order()): prepare() raises CycleError before the
\* generator yields its first node, so the list is never built.
StaticOrder(g) ==
    IF FindCycle(g)
    THEN [status |-> "CyclicDependencyError", order |-> <<>>]
    ELSE StaticOrderUnchecked(g)

\* topological_sort(dependencies), the sets iterated in the orders iter.
TopologicalSort(keys, iter) == StaticOrder(SorterInit(EmptySorter, keys, iter))

(***************************************************************************)
(* topological_sort over dependency maps.                                  *)
(***************************************************************************)
\* The iteration orders the sets of a dependency map can have: one order
\* per key (Python leaves the iteration order of a set open).
RECURSIVE IterOrders(_, _)
IterOrders(keys, deps) ==
    IF keys = <<>> THEN {<<>>}
    ELSE {(Head(keys) :> o) @@ f :
            o \in Orderings(deps[Head(keys)]), f \in IterOrders(Tail(keys), deps)}

DepSets == {S \in SUBSET AllNames : Cardinality(S) <= MaxDeps} \cup {}

\* Dependency maps: dicts in insertion order whose values are sets of names.
\* The parts of the state a specification does not use stay as they are here.
TopoIdle == dependencies = [keys |-> <<>>, deps |-> <<>>] /\ topoResult = NotRun
SortIdle == images = <<>> /\ sortResult = NotRun
GenIdle  == gpc = "idle" /\ cursor = 0 /\ written = {} /\ exitCode = None
CacheIdle ==
    /\ seriesCache = NoTable /\ cpc = <<>> /\ carg = <<>> /\ fetched = <<>>
    /\ answer = <<>> /\ fetches = 0 /\ held = {} /\ calls = 0
PoolIdle == poolStatus = <<>> /\ poolOpen = FALSE
LockIdle ==
    /\ lockFile = <<>> /\ lockEnv = <<>> /\ lpc = "idle" /\ lrun = 0 /\ lidx = 0
    /\ existingBases = <<>> /\ basesData = <<>> /\ queries = {} /\ answers = {}
    /\ fileBefore = <<>> /\ lexits = <<>>
LockingIdle == CacheIdle /\ PoolIdle /\ LockIdle
ResolveIdle == locked = <<>> /\ notFound = <<>> /\ builtSection = NotBuilt
MergeIdle ==
    /\ rfSources = <<>> /\ rfDest = <<>> /\ rfIdx = 0 /\ rfSeen = {}
    /\ rfStatus = "idle"
ContentIdle == hcRoots = <<>> /\ hcResult = "notrun"
ResolverIdle == config = <<>> /\ resolved = <<>>
MergerIdle == mBase = <<>> /\ mOverride = <<>> /\ mResult = <<>>
AliasIdle == alTags = <<>> /\ alResult = <<>>
PureIdle == ResolverIdle /\ MergerIdle /\ AliasIdle
ExtIdle == ResolveIdle /\ MergeIdle /\ ContentIdle /\ PureIdle /\ LateIdle

InitTopo ==
    /\ \E ks \in InjectiveSeqs(Names, Cardinality(Names)) :
         \E d \in [Range(ks) -> DepSets] :
            dependencies = [keys |-> ks, deps |-> d]
    /\ topoResult = NotRun
    /\ SortIdle
    /\ GenIdle
    /\ LockingIdle
    /\ ExtIdle

CallTopologicalSort ==
    /\ topoResult = NotRun
    /\ \E iter \in IterOrders(dependencies.keys, dependencies.deps) :
          topoResult' = TopologicalSort(dependencies.keys, iter)
    /\ UNCHANGED <<dependencies, sortVars, genVars, lockingVars, extVars>>

NextTopo == CallTopologicalSort

SpecTopo == InitTopo /\ [][NextTopo]_vars

(***************************************************************************)
(* Images and sort_images.  An image is                                    *)
(*   [path: its directory (its identity), name,                            *)
(*    tmpl: the names its primary template references,                     *)
(*    variants: per variant, the names the variant's template references,  *)
(*    extends: a name or None].                                            *)
(* A template's text is held as the set extract_base_image_refs finds in   *)
(* it; a template file that does not exist contributes no reference.       *)
(***************************************************************************)
\* The references one image holds over all its sources.
RefCount(tmpl, variants, extends) ==
    Cardinality(tmpl)
    + (IF variants = <<>> THEN 0 ELSE Cardinality(variants[1]))
    + (IF extends = None THEN 0 ELSE 1)

\* An image without any reference.
NoRefs == [tmpl |-> {}, variants |-> <<>>, extends |-> None]

\* One more reference in the primary template, the variant template or
\* the extends field of the image's configuration.
AddRef(sh, role, n) ==
    CASE role = "tmpl"    -> [sh EXCEPT !.tmpl = @ \cup {n}]
      [] role = "variant" -> [sh EXCEPT !.variants =
                                 IF @ = <<>> THEN <<{n}>> ELSE <<@[1] \cup {n}>>]
      [] role = "extends" -> [sh EXCEPT !.extends = n]

\* What an image can look like apart from its path and name.
RECURSIVE ShapesUpTo(_)
ShapesUpTo(r) ==
    IF r = 0 THEN {NoRefs}
    ELSE LET prev == ShapesUpTo(r - 1)
         IN prev \cup {AddRef(sh, role, n) :
                         sh \in prev, role \in {"tmpl", "variant", "extends"},
                         n \in AllNames}

MkImage(p, n, sh) ==
    [path |-> p, name |-> n, tmpl |-> sh.tmpl, variants |-> sh.variants,
     extends |-> sh.extends]

\* The union of the references of all variant templates of one image.
RECURSIVE VariantRefs(_)
VariantRefs(variants) ==
    IF variants = <<>> THEN {}
    ELSE Head(variants) \cup VariantRefs(Tail(variants))

\* Variant of the deps set that leaves out the primary template.
ImageDepsNoTemplate(image) ==
    VariantRefs(image.variants)
    \cup (IF image.extends # None THEN {image.extends} ELSE {})

\* The deps set extract_dependencies builds for one image.
ImageDeps(image) ==
    image.tmpl
    \cup VariantRefs(image.variants)
    \cup (IF image.extends # None THEN {image.extends} ELSE {})

\* extract_dependencies: dependencies[image.name] = deps for every image in
\* list order; assigning to a name already present replaces its set and
\* keeps the position of the key.
RECURSIVE ExtractDependencies(_, _)
ExtractDependencies(imgs, acc) ==
    IF imgs = <<>> THEN acc
    ELSE LET image == Head(imgs)
             ks    == IF image.name \in Range(acc.keys) THEN acc.keys
                      ELSE Append(acc.keys, image.name)
             ds    == (image.name :> ImageDeps(image)) @@ acc.deps
         IN ExtractDependencies(Tail(imgs), [keys |-> ks, deps |-> ds])

EmptyDict == [keys |-> <<>>, deps |-> <<>>]

\* Variant of image_map that keeps one image per name (assignment instead
\* of append).
ImageMapLastOnly(imgs, n) ==
    LET all == SelectSeq(imgs, LAMBDA image : image.name = n)
    IN IF all = <<>> THEN <<>> ELSE <<all[Len(all)]>>

\* image_map[name]: the images of that name in list order.
ImageMap(imgs, n) == SelectSeq(imgs, LAMBDA image : image.name = n)

\* The loop mapping sorted names back to images, taken without its
\* membership test: looking up a name that no image has raises KeyError.
RECURSIVE ExpandNamesUnguarded(_, _, _)
ExpandNamesUnguarded(imgs, sortedNames, out) ==
    IF sortedNames = <<>> THEN [status |-> "ok", order |-> out]
    ELSE IF Head(sortedNames) \notin {imgs[i].name : i \in 1..Len(imgs)}
         THEN [status |-> "KeyError", order |-> <<>>]
         ELSE ExpandNamesUnguarded(imgs, Tail(sortedNames),
                                   out \o ImageMap(imgs, Head(sortedNames)))

\* for name in sorted_names: if name in image_map: extend(image_map[name]).
RECURSIVE ExpandNames(_, _, _)
ExpandNames(imgs, sortedNames, out) ==
    IF sortedNames = <<>> THEN [status |-> "ok", order |-> out]
    ELSE IF Head(sortedNames) \in {imgs[i].name : i \in 1..Len(imgs)}
         THEN ExpandNames(imgs, Tail(sortedNames),
                          out \o ImageMap(imgs, Head(sortedNames)))
         ELSE ExpandNames(imgs, Tail(sortedNames), out)

\* sort_images(images): the CyclicDependencyError of topological_sort
\* propagates.
SortImages(imgs, iter) ==
    LET d == ExtractDependencies(imgs, EmptyDict)
        t == TopologicalSort(d.keys, iter)
    IN IF t.status # "ok" THEN t ELSE ExpandNames(imgs, t.order, <<>>)

RECURSIVE TotalRefs(_)
TotalRefs(imgs) ==
    IF imgs = <<>> THEN 0
    ELSE RefCount(Head(imgs).tmpl, Head(imgs).variants, Head(imgs).extends)
         + TotalRefs(Tail(imgs))

\* Image names are opaque to the code, so a list is loaded up to a renaming
\* of the managed names: a new image takes a name already in use or the first
\* unused name of NameOrder.
NameOrder == <<"a", "b", "c">>

NamesInUse(imgs) == {imgs[i].name : i \in 1..Len(imgs)}

NextNames(imgs) ==
    NamesInUse(imgs)
    \cup (IF Cardinality(NamesInUse(imgs)) < Len(NameOrder)
          THEN {NameOrder[Cardinality(NamesInUse(imgs)) + 1]} ELSE {})

\* One round of the loading loop: an image.yml is found, resolved and
\* appended to all_images.
AppendImage(imgs, n, sh) == Append(imgs, MkImage(Len(imgs) + 1, n, sh))

InitSort ==
    /\ images = <<>>
    /\ sortResult = NotRun
    /\ TopoIdle
    /\ GenIdle
    /\ LockingIdle
    /\ ExtIdle

LoadImage ==
    /\ sortResult = NotRun
    /\ Len(images) < MaxImages
    /\ \E n \in NextNames(images),
          sh \in ShapesUpTo(MaxRefs - TotalRefs(images)) :
            images' = AppendImage(images, n, sh)
    /\ UNCHANGED <<sortResult, topoVars, genVars, lockingVars, extVars>>

CallSortImages ==
    /\ sortResult = NotRun
    /\ LET d == ExtractDependencies(images, EmptyDict)
       IN \E iter \in IterOrders(d.keys, d.deps) :
            sortResult' = SortImages(images, iter)
    /\ UNCHANGED <<images, topoVars, genVars, lockingVars, extVars>>

NextSort == LoadImage \/ CallSortImages

SpecSort == InitSort /\ [][NextSort]_vars

(***************************************************************************)
(* The generate command (cmd_generate).  The tags of an image and of its   *)
(* variants, the content of the rootfs directories and the aliases are     *)
(* left to the environment: a tag round may repeat, and each round the     *)
(* rootfs directories hold content or not.                                 *)
(***************************************************************************)
OutputKinds == {"rootfs", "Dockerfile", "test.yml", "alias", "report"}

InitGen ==
    /\ gpc = "args"
    /\ cursor = 0
    /\ written = {}
    /\ exitCode = None
    /\ images = <<>>
    /\ sortResult = NotRun
    /\ TopoIdle
    /\ LockingIdle
    /\ ExtIdle

\* The option loop: an unknown "--" argument ends the command with 1.
GenParseArgs ==
    /\ gpc = "args"
    /\ \E unknownArgument \in BOOLEAN :
          IF unknownArgument
          THEN gpc' = "done" /\ exitCode' = 1
          ELSE gpc' = "load" /\ exitCode' = exitCode
    /\ UNCHANGED <<cursor, written, sortVars, topoVars, lockingVars, extVars>>

\* One round of the loading loop.
GenLoadImage ==
    /\ gpc = "load"
    /\ Len(images) < MaxImages
    /\ \E n \in NextNames(images),
          sh \in ShapesUpTo(MaxRefs - TotalRefs(images)) :
            images' = AppendImage(images, n, sh)
    /\ UNCHANGED <<sortResult, topoVars, genVars, lockingVars, extVars>>

\* ConfigLoader.load or ModelResolver.resolve raises: the exception leaves
\* the command and the interpreter exits with 1.
GenLoadFails ==
    /\ gpc = "load"
    /\ gpc' = "done"
    /\ exitCode' = 1
    /\ UNCHANGED <<cursor, written, sortVars, topoVars, lockingVars, extVars>>

\* Where generate goes once image number c of n is finished.
AfterImage(c, n) == IF c < n THEN "tags" ELSE "report"

\* try: sorted_images = sort_images(all_images)
\* except CyclicDependencyError: print the error; return 1
GenSortStep(res) ==
    /\ sortResult' = res
    /\ IF res.status = "CyclicDependencyError"
       THEN gpc' = "done" /\ exitCode' = 1 /\ cursor' = cursor
       ELSE gpc' = AfterImage(0, Len(res.order)) /\ cursor' = 1
            /\ exitCode' = exitCode

GenSort ==
    /\ gpc = "load"
    /\ LET d == ExtractDependencies(images, EmptyDict)
       IN \E iter \in IterOrders(d.keys, d.deps) :
            GenSortStep(SortImages(images, iter))
    /\ UNCHANGED <<images, written, topoVars, lockingVars, extVars>>

\* One tag of the current image (a base tag or a variant tag): the merged
\* rootfs tree when the rootfs directories hold content, then the
\* Dockerfile and the test config.
GenRenderTag ==
    /\ gpc = "tags"
    /\ \E hasRootfs \in BOOLEAN :
          written' = written \cup (IF hasRootfs THEN {"rootfs"} ELSE {})
                             \cup {"Dockerfile", "test.yml"}
    /\ UNCHANGED <<gpc, cursor, exitCode, sortVars, topoVars, lockingVars, extVars>>

\* Rendering raises (a base image that cannot be resolved, a missing
\* version or test template): the rootfs tree of this tag, and its
\* Dockerfile when the test config fails, are already written.
GenRenderFails ==
    /\ gpc = "tags"
    /\ \E hasRootfs \in BOOLEAN, dockerfileWritten \in BOOLEAN :
          written' = written \cup (IF hasRootfs THEN {"rootfs"} ELSE {})
                             \cup (IF dockerfileWritten THEN {"Dockerfile"} ELSE {})
    /\ gpc' = "done"
    /\ exitCode' = 1
    /\ UNCHANGED <<cursor, sortVars, topoVars, lockingVars, extVars>>

\* The alias files of the image and of its variants, then the next image.
GenWriteAliases ==
    /\ gpc = "tags"
    /\ \E hasAliases \in BOOLEAN :
          written' = written \cup (IF hasAliases THEN {"alias"} ELSE {})
    /\ gpc' = AfterImage(cursor, Len(sortResult.order))
    /\ cursor' = cursor + 1
    /\ UNCHANGED <<exitCode, sortVars, topoVars, lockingVars, extVars>>

\* generate_image_report and return 0.
GenReport ==
    /\ gpc = "report"
    /\ written' = written \cup {"report"}
    /\ gpc' = "done"
    /\ exitCode' = 0
    /\ UNCHANGED <<cursor, sortVars, topoVars, lockingVars, extVars>>

Next ==
    \/ GenParseArgs
    \/ GenLoadImage
    \/ GenLoadFails
    \/ GenSort
    \/ GenRenderTag
    \/ GenRenderFails
    \/ GenWriteAliases
    \/ GenReport

Spec == InitGen /\ [][Next]_vars

(***************************************************************************)
(* get_ubuntu_codename and its module-level cache _series_cache.  Several  *)
(* threads of one process call it; a call is a check of the cache, for an  *)
(* empty cache a request to the remote service and the assignment of the   *)
(* table built from the answer, and the lookup of the version.             *)
(***************************************************************************)
Callers == 1..NumCallers

\* The tables the remote service can answer with: version -> codename.
Tables == {("24.04" :> "noble"),
           ("24.04" :> "noble") @@ ("25.04" :> "plucky")}

UbuntuVersions == {"24.04", "25.04"}

InitCache ==
    /\ seriesCache = NoTable
    /\ cpc = [c \in Callers |-> "idle"]
    /\ carg = [c \in Callers |-> None]
    /\ fetched = [c \in Callers |-> NoTable]
    /\ answer = [c \in Callers |-> None]
    /\ fetches = 0
    /\ held = {}
    /\ calls = 0
    /\ TopoIdle /\ SortIdle /\ GenIdle /\ PoolIdle /\ LockIdle
    /\ ExtIdle

\* The call and its test "if _series_cache is None".
CacheCall(c) ==
    /\ cpc[c] = "idle"
    /\ calls < MaxCalls
    /\ calls' = calls + 1
    /\ \E v \in UbuntuVersions : carg' = [carg EXCEPT ![c] = v]
    /\ cpc' = [cpc EXCEPT ![c] = IF seriesCache = NoTable THEN "fetch" ELSE "lookup"]
    /\ UNCHANGED <<seriesCache, fetched, answer, fetches, held>>
    /\ UNCHANGED <<topoVars, sortVars, genVars, poolVars, lockVars, extVars>>

\* urlopen, read and json.loads: the service answers with a table.
CacheFetch(c) ==
    /\ cpc[c] = "fetch"
    /\ \E t \in Tables : fetched' = [fetched EXCEPT ![c] = t]
    /\ fetches' = fetches + 1
    /\ cpc' = [cpc EXCEPT ![c] = "store"]
    /\ UNCHANGED <<seriesCache, carg, answer, held, calls>>
    /\ UNCHANGED <<topoVars, sortVars, genVars, poolVars, lockVars, extVars>>

\* urlopen raises (no network, timeout): the exception leaves the call
\* and the cache stays empty.
CacheFetchFails(c) ==
    /\ cpc[c] = "fetch"
    /\ answer' = [answer EXCEPT ![c] = "URLError"]
    /\ cpc' = [cpc EXCEPT ![c] = "idle"]
    /\ UNCHANGED <<seriesCache, carg, fetched, fetches, held, calls>>
    /\ UNCHANGED <<topoVars, sortVars, genVars, poolVars, lockVars, extVars>>

\* _series_cache = {entry["version"]: entry["name"] ...}
CacheStore(c) ==
    /\ cpc[c] = "store"
    /\ seriesCache' = fetched[c]
    /\ held' = held \cup {fetched[c]}
    /\ cpc' = [cpc EXCEPT ![c] = "lookup"]
    /\ UNCHANGED <<carg, fetched, answer, fetches, calls>>
    /\ UNCHANGED <<topoVars, sortVars, genVars, poolVars, lockVars, extVars>>

\* if version not in _series_cache: raise ValueError; return the codename.
CodenameOf(table, version) ==
    IF version \in DOMAIN table THEN table[version] ELSE "ValueError"

CacheLookup(c) ==
    /\ cpc[c] = "lookup"
    /\ answer' = [answer EXCEPT ![c] = CodenameOf(seriesCache, carg[c])]
    /\ cpc' = [cpc EXCEPT ![c] = "idle"]
    /\ UNCHANGED <<seriesCache, carg, fetched, fetches, held, calls>>
    /\ UNCHANGED <<topoVars, sortVars, genVars, poolVars, lockVars, extVars>>

NextCache ==
    \E c \in Callers :
        \/ CacheCall(c)
        \/ CacheFetch(c)
        \/ CacheFetchFails(c)
        \/ CacheStore(c)
        \/ CacheLookup(c)

SpecCache == InitCache /\ [][NextCache]_vars

(***************************************************************************)
(* The worker pool of run_lock: every package of the base is submitted,    *)
(* in sorted order, to a ThreadPoolExecutor; a worker takes the oldest     *)
(* queued lookup; get_package_version returns a version, or None when the  *)
(* package is not found, the request fails or it times out.                *)
(***************************************************************************)
PoolPkgs == DOMAIN poolStatus

Running == {p \in PoolPkgs : poolStatus[p] = "running"}
Queued  == {p \in PoolPkgs : poolStatus[p] = "queued"}
NotSubmitted == {p \in PoolPkgs : poolStatus[p] = "new"}
Finished == {p \in PoolPkgs : poolStatus[p] \in {"version", None}}

Lowest(S) == CHOOSE p \in S : \A q \in S : p <= q

InitPool ==
    /\ \E n \in 1..MaxPkgs : poolStatus = [p \in 1..n |-> "new"]
    /\ poolOpen = TRUE
    /\ TopoIdle /\ SortIdle /\ GenIdle /\ CacheIdle /\ LockIdle
    /\ ExtIdle

\* A pool as wide as the list of packages is long.
WorkersUnbounded == MaxPkgs + 1

\* The number of lookups the executor runs at once.
Workers == MaxWorkers

\* executor.submit(resolve_pkg, pkg) for the next package.
PoolSubmit ==
    /\ poolOpen
    /\ NotSubmitted # {}
    /\ poolStatus' = [poolStatus EXCEPT ![Lowest(NotSubmitted)] = "queued"]
    /\ UNCHANGED <<poolOpen, cacheVars, lockVars, topoVars, sortVars, genVars, extVars>>

\* A worker that is free takes the oldest queued lookup.
PoolStart ==
    /\ Queued # {}
    /\ Cardinality(Running) < Workers
    /\ poolStatus' = [poolStatus EXCEPT ![Lowest(Queued)] = "running"]
    /\ UNCHANGED <<poolOpen, cacheVars, lockVars, topoVars, sortVars, genVars, extVars>>

\* get_package_version returns: a version, or None for every failure.
PoolFinish(p) ==
    /\ p \in PoolPkgs
    /\ poolStatus[p] = "running"
    /\ \E r \in {"version", None} : poolStatus' = [poolStatus EXCEPT ![p] = r]
    /\ UNCHANGED <<poolOpen, cacheVars, lockVars, topoVars, sortVars, genVars, extVars>>

\* The with-block is left once as_completed has passed out every future.
PoolShutdown ==
    /\ poolOpen
    /\ Finished = PoolPkgs
    /\ poolOpen' = FALSE
    /\ UNCHANGED <<poolStatus, cacheVars, lockVars, topoVars, sortVars, genVars, extVars>>

NextPool ==
    \/ PoolSubmit
    \/ PoolStart
    \/ \E p \in 1..MaxPkgs : PoolFinish(p)
    \/ PoolShutdown

SpecPool == InitPool /\ [][NextPool]_vars

(***************************************************************************)
(* The results of the lookups of one base (run_lock, the as_completed      *)
(* loop and what follows it).  The lookups are those of the worker pool    *)
(* above; a finished lookup holds its result in poolStatus.                *)
(***************************************************************************)
notResolveVars == <<topoVars, sortVars, genVars, cacheVars, lockVars, mergeVars,
                    contentVars, pureVars, lateVars>>

InitResolve ==
    /\ \E n \in 1..MaxResolvePkgs : poolStatus = [p \in 1..n |-> "new"]
    /\ poolOpen = TRUE
    /\ ResolveIdle
    /\ TopoIdle /\ SortIdle /\ GenIdle /\ CacheIdle /\ LockIdle
    /\ MergeIdle /\ ContentIdle /\ PureIdle /\ LateIdle

\* The packages whose future as_completed has passed out so far.
Collected ==
    {locked[i][1] : i \in 1..Len(locked)} \cup {notFound[i] : i \in 1..Len(notFound)}

\* Variant of the end of the loop: it is left after the first future.
AnyCollected == Collected # {}

\* The loop "for future in as_completed(futures)" ends when every future
\* has been passed out.
AllCollected == Collected = PoolPkgs

\* The dict locked as a map: package -> version, None without an entry.
LockedMap(entries) ==
    [p \in PoolPkgs |->
        IF \E i \in 1..Len(entries) : entries[i][1] = p
        THEN entries[CHOOSE i \in 1..Len(entries) :
                        /\ entries[i][1] = p
                        /\ \A j \in 1..Len(entries) : entries[j][1] = p => j <= i][2]
        ELSE None]

\* One round of the loop: a finished future is passed out, once all are
\* submitted; "if version" files the package under locked or not_found.
ResolveCollect(p) ==
    /\ poolOpen
    /\ NotSubmitted = {}
    /\ ~AllCollected
    /\ p \in Finished \ Collected
    /\ IF poolStatus[p] # None
       THEN locked' = Append(locked, <<p, poolStatus[p]>>) /\ notFound' = notFound
       ELSE notFound' = Append(notFound, p) /\ locked' = locked
    /\ UNCHANGED <<builtSection, poolVars, notResolveVars>>

\* The with-block is left and bases_data[base_ref] is assigned.
ResolveBuildSection ==
    /\ poolOpen
    /\ NotSubmitted = {}
    /\ AllCollected
    /\ poolOpen' = FALSE
    /\ builtSection' = [built |-> TRUE, packages |-> LockedMap(locked)]
    /\ UNCHANGED <<locked, notFound, poolStatus, notResolveVars>>

NextResolve ==
    \/ PoolSubmit
    \/ PoolStart
    \/ \E p \in 1..MaxResolvePkgs : PoolFinish(p)
    \/ \E p \in 1..MaxResolvePkgs : ResolveCollect(p)
    \/ ResolveBuildSection

SpecResolve == InitResolve /\ [][NextResolve]_vars

(***************************************************************************)
(* run_lock over one lock file.  A section is                              *)
(*   [digest, codename, packages: package -> version or None (no entry)].  *)
(* The Dockerfiles decide the bases of the tags (in the order in which     *)
(* base_to_tags receives them) and the packages of each base; the release  *)
(* table decides which bases have a codename.  Both stay as they are from  *)
(* one run to the next.                                                    *)
(***************************************************************************)
Bases == {"ubuntu:22.04", "ubuntu:24.04"}
Codename == ("ubuntu:22.04" :> "jammy") @@ ("ubuntu:24.04" :> "noble")
Pkgs == {"curl", "git"}

\* What the lock file can hold when the first run begins.
OldVersions == {"1.0"}
OldDigests == {"sha256:aa"}
\* What the package index and the registry answer now.
NewVersions == {"1.1"}
NewDigests == {"sha256:bb"}

NoSections == [b \in Bases |-> Absent]

OldSections ==
    {[digest |-> dg, codename |-> cn, packages |-> m] :
        dg \in OldDigests \cup {None}, cn \in {"jammy", "noble"},
        m \in [Pkgs -> OldVersions \cup {None}]}

HasPackages(section) == \E p \in Pkgs : section.packages[p] # None

InitLock ==
    /\ \E f \in [Bases -> OldSections \cup {Absent}] :
          /\ \A b \in Bases : f[b] # Absent => f[b].codename = Codename[b]
          /\ lockFile = f
          /\ fileBefore = f
    /\ \E t \in InjectiveSeqs(Bases, Cardinality(Bases)),
          pk \in [Bases -> {{}, Pkgs}],
          kn \in SUBSET Bases :
            lockEnv = [tags |-> t, pkgs |-> pk, known |-> kn]
    /\ lpc = "idle"
    /\ lrun = 0
    /\ lidx = 0
    /\ existingBases = NoSections
    /\ basesData = NoSections
    /\ queries = {}
    /\ answers = {}
    /\ lexits = <<>>
    /\ TopoIdle /\ SortIdle /\ GenIdle /\ CacheIdle /\ PoolIdle
    /\ ExtIdle

\* run_lock begins: without a base among the tags it returns 1; otherwise
\* existing_bases = read_all_bases(lock_path) and bases_data = {}.
LockBegin ==
    /\ lpc \in {"idle", "done"}
    /\ lrun < MaxRuns
    /\ lrun' = lrun + 1
    /\ fileBefore' = lockFile
    /\ basesData' = NoSections
    /\ IF lockEnv.tags = <<>>
       THEN /\ lpc' = "done"
            /\ lexits' = Append(lexits, 1)
            /\ UNCHANGED <<lidx, existingBases>>
       ELSE /\ lpc' = "bases"
            /\ lidx' = 1
            /\ existingBases' = lockFile
            /\ lexits' = lexits
    /\ UNCHANGED <<lockFile, lockEnv, queries, answers>>
    /\ UNCHANGED <<topoVars, sortVars, genVars, cacheVars, poolVars, extVars>>

\* The first get_ubuntu_codename of the process cannot reach the remote
\* service: the exception is no ValueError and ends the run.
LockFetchFails ==
    /\ lpc = "bases"
    /\ lidx = 1
    /\ lpc' = "done"
    /\ lexits' = Append(lexits, 1)
    /\ UNCHANGED <<lockFile, lockEnv, lrun, lidx, existingBases, basesData,
                   queries, answers, fileBefore>>
    /\ UNCHANGED <<topoVars, sortVars, genVars, cacheVars, poolVars, extVars>>

\* Variant of the test for an existing section that never finds one.
ReuseNever(existing, b) == FALSE

\* if base_ref in existing_bases and its "packages" are not empty
ReuseExisting(existing, b) ==
    existing[b] # Absent /\ HasPackages(existing[b])

\* Variant of the section in which one unresolved package empties the map.
NewSectionAllOrNothing(b, wanted, res, dg) ==
    [digest |-> dg, codename |-> Codename[b],
     packages |-> [p \in Pkgs |->
                     IF \A q \in wanted : res[q] # None
                     THEN (IF p \in wanted THEN res[p] ELSE None)
                     ELSE None]]

\* The section built from the lookups res (package -> version or None) of
\* the packages wanted and the digest dg.
NewSection(b, wanted, res, dg) ==
    [digest |-> dg, codename |-> Codename[b],
     packages |-> [p \in Pkgs |-> IF p \in wanted THEN res[p] ELSE None]]

\* Variant of the handler of ValueError that leaves the loop.
AfterUnknownCodenameBreak(i, n) == n + 1

\* except ValueError: continue -- the index of the next round.
AfterUnknownCodename(i, n) == i + 1

\* One round of the loop over base_to_tags.
LockBase ==
    /\ lpc = "bases"
    /\ lidx <= Len(lockEnv.tags)
    /\ LET b == lockEnv.tags[lidx]
       IN IF b \notin lockEnv.known
          THEN /\ lidx' = AfterUnknownCodename(lidx, Len(lockEnv.tags))
               /\ UNCHANGED <<basesData, queries, answers>>
          ELSE /\ lidx' = lidx + 1
               /\ IF ReuseExisting(existingBases, b)
                  THEN /\ basesData' = [basesData EXCEPT ![b] = existingBases[b]]
                       /\ UNCHANGED <<queries, answers>>
                  ELSE IF lockEnv.pkgs[b] = {}
                  THEN UNCHANGED <<basesData, queries, answers>>
                  ELSE \E res \in [lockEnv.pkgs[b] -> NewVersions \cup {None}],
                          dg \in NewDigests \cup {None} :
                         /\ basesData' = [basesData EXCEPT
                               ![b] = NewSection(b, lockEnv.pkgs[b], res, dg)]
                         /\ queries' = queries \cup {<<lrun, b, "package">>,
                                                     <<lrun, b, "digest">>}
                         /\ answers' = answers \cup
                               {<<lrun, b, p, res[p]>> : p \in lockEnv.pkgs[b]}
    /\ UNCHANGED <<lockFile, lockEnv, lpc, lrun, existingBases, fileBefore, lexits>>
    /\ UNCHANGED <<topoVars, sortVars, genVars, cacheVars, poolVars, extVars>>

\* After the loop: return 1 without bases_data, else write_lock_file
\* replaces the bases mapping of the file by bases_data and 0 is returned.
LockWrite ==
    /\ lpc = "bases"
    /\ lidx > Len(lockEnv.tags)
    /\ IF basesData = NoSections
       THEN lockFile' = lockFile /\ lexits' = Append(lexits, 1)
       ELSE lockFile' = basesData /\ lexits' = Append(lexits, 0)
    /\ lpc' = "done"
    /\ UNCHANGED <<lockEnv, lrun, lidx, existingBases, basesData, queries, answers,
                   fileBefore>>
    /\ UNCHANGED <<topoVars, sortVars, genVars, cacheVars, poolVars, extVars>>

NextLock ==
    \/ LockBegin
    \/ LockFetchFails
    \/ LockBase
    \/ LockWrite

SpecLock == InitLock /\ [][NextLock]_vars

(***************************************************************************)
(* merge_rootfs.  A tree holds entries directly beneath its root: per      *)
(* path nothing, a regular file with its content, a symlink with its raw   *)
(* target, or a directory; a directory of dest holds the files copied      *)
(* into it as <<name, content>>.  The directories of the sources are       *)
(* empty.  The files of source number i have the content FileData[i].      *)
(***************************************************************************)
RootfsPaths == {"x", "y"}
\* A name no source has an entry for: the target of a dangling symlink.
OtherPath == "z"
DestPaths == RootfsPaths \cup {OtherPath}
FileData == <<"one", "two", "three">>

NoEntry == [kind |-> "none", data |-> "", holds |-> {}]
FileEntry(c) == [kind |-> "file", data |-> c, holds |-> {}]
LinkEntry(t) == [kind |-> "link", data |-> t, holds |-> {}]
DirEntry(h) == [kind |-> "dir", data |-> "", holds |-> h]

\* What source number i can hold at one path.
SourceEntries(i) ==
    {NoEntry, FileEntry(FileData[i]), DirEntry({})}
    \cup {LinkEntry(t) : t \in DestPaths}

EmptyTree == [p \in DestPaths |-> NoEntry]

notMergeVars == <<topoVars, sortVars, genVars, lockingVars, resolveVars, contentVars,
                  pureVars, lateVars>>

\* merge_rootfs is entered with a list of sources that is not empty;
\* dest.mkdir creates the empty destination.
InitMerge ==
    /\ \E n \in 1..MaxSources :
          \E srcs \in [1..n -> [RootfsPaths -> UNION {SourceEntries(i) : i \in 1..n}]] :
             /\ \A i \in 1..n : \A p \in RootfsPaths : srcs[i][p] \in SourceEntries(i)
             /\ rfSources = srcs
    /\ rfDest = EmptyTree
    /\ rfIdx = 1
    /\ rfSeen = {}
    /\ rfStatus = "merging"
    /\ TopoIdle /\ SortIdle /\ GenIdle /\ LockingIdle /\ ResolveIdle /\ ContentIdle
    /\ PureIdle /\ LateIdle

\* The path an open() or stat() of p ends at when symlinks are followed:
\* "ELOOP" when the links form a loop.
RECURSIVE FollowLinks(_, _, _)
FollowLinks(tree, p, fuel) ==
    IF tree[p].kind # "link" THEN p
    ELSE IF fuel = 0 THEN "ELOOP"
    ELSE FollowLinks(tree, tree[p].data, fuel - 1)

Resolved(tree, p) == FollowLinks(tree, p, Cardinality(DestPaths))

\* os.path.isdir(dst) and Path.is_dir(): symlinks are followed.
IsDir(tree, p) ==
    Resolved(tree, p) # "ELOOP" /\ tree[Resolved(tree, p)].kind = "dir"

\* shutil.copy2(item, dest_path) for a regular file with content c: a
\* destination that is a directory takes the file under its own name;
\* otherwise the destination is opened for writing, symlinks followed.
CopyFile(tree, p, c) ==
    LET q == Resolved(tree, p)
    IN IF q = "ELOOP" THEN [ok |-> FALSE, tree |-> tree]
       ELSE IF tree[q].kind = "dir"
       THEN [ok |-> TRUE, tree |-> [tree EXCEPT ![q].holds = @ \cup {<<p, c>>}]]
       ELSE [ok |-> TRUE, tree |-> [tree EXCEPT ![q] = FileEntry(c)]]

\* The symlink branch: unlink what is there (a directory cannot be
\* unlinked), then symlink_to(item.readlink()).
CopyLink(tree, p, t) ==
    IF tree[p].kind = "dir" THEN [ok |-> FALSE, tree |-> tree]
    ELSE [ok |-> TRUE, tree |-> [tree EXCEPT ![p] = LinkEntry(t)]]

\* The directory branch: dest_path.mkdir(parents=True, exist_ok=True).
MakeDir(tree, p) ==
    IF tree[p].kind = "none" THEN [ok |-> TRUE, tree |-> [tree EXCEPT ![p] = DirEntry({})]]
    ELSE IF IsDir(tree, p) THEN [ok |-> TRUE, tree |-> tree]
    ELSE [ok |-> FALSE, tree |-> tree]

\* The body of the loop over rglob("*") for one item.
CopyItem(tree, p, item) ==
    CASE item.kind = "link" -> CopyLink(tree, p, item.data)
      [] item.kind = "file" -> CopyFile(tree, p, item.data)
      [] item.kind = "dir"  -> MakeDir(tree, p)

\* The paths rglob("*") passes out for a source.
ItemsOf(src) == {p \in RootfsPaths : src[p].kind # "none"}

\* One item of the current source, in the order rglob yields them (the
\* order of the directory's entries is the file system's).
MergeItem ==
    /\ rfStatus = "merging"
    /\ rfIdx <= Len(rfSources)
    /\ \E p \in ItemsOf(rfSources[rfIdx]) \ rfSeen :
          LET r == CopyItem(rfDest, p, rfSources[rfIdx][p])
          IN /\ rfDest' = r.tree
             /\ rfSeen' = rfSeen \cup {p}
             /\ rfStatus' = IF r.ok THEN "merging" ELSE "raised"
    /\ UNCHANGED <<rfSources, rfIdx, notMergeVars>>

\* rglob is exhausted: the next source.
MergeNextSource ==
    /\ rfStatus = "merging"
    /\ rfIdx <= Len(rfSources)
    /\ ItemsOf(rfSources[rfIdx]) \subseteq rfSeen
    /\ rfIdx' = rfIdx + 1
    /\ rfSeen' = {}
    /\ UNCHANGED <<rfSources, rfDest, rfStatus, notMergeVars>>

\* The loop over the sources is over.
MergeReturn ==
    /\ rfStatus = "merging"
    /\ rfIdx > Len(rfSources)
    /\ rfStatus' = "returned"
    /\ UNCHANGED <<rfSources, rfDest, rfIdx, rfSeen, notMergeVars>>

NextMerge == MergeItem \/ MergeNextSource \/ MergeReturn

SpecMerge == InitMerge /\ [][NextMerge]_vars

(***************************************************************************)
(* has_rootfs_content.  What a listed path holds is                        *)
(*   [root: "missing", "file" or "dir",                                    *)
(*    tree: <<top name, depth>> -> "none", "dir", "file", "link", "fifo"]  *)
(* where <<t, 1>> is the entry t of the listed directory and <<t, k + 1>>  *)
(* the one entry inside <<t, k>>.                                          *)
(***************************************************************************)
ListedPaths == {"image/rootfs", "version/rootfs"}
TopNames == {"etc", "usr"}
Nodes == TopNames \X (1..MaxDepth)
EntryKinds == {"dir", "file", "link", "fifo"}

NoNodes == [n \in Nodes |-> "none"]

notContentVars == <<topoVars, sortVars, genVars, lockingVars, resolveVars, mergeVars,
                    pureVars, lateVars>>

InitContent ==
    /\ hcRoots \in [ListedPaths -> {[root |-> r, tree |-> NoNodes] :
                                      r \in {"missing", "file", "dir"}}]
    /\ hcResult = "notrun"
    /\ TopoIdle /\ SortIdle /\ GenIdle /\ LockingIdle /\ ResolveIdle /\ MergeIdle
    /\ PureIdle /\ LateIdle

\* An entry can be made where nothing is, inside a directory.
CanHold(r, n) ==
    /\ r.tree[n] = "none"
    /\ IF n[2] = 1 THEN r.root = "dir" ELSE r.tree[<<n[1], n[2] - 1>>] = "dir"

\* The file system changes: a directory, regular file, symlink or fifo is
\* made beneath a listed path.
ContentAddEntry ==
    /\ \E l \in ListedPaths, n \in Nodes, k \in EntryKinds :
          /\ CanHold(hcRoots[l], n)
          /\ hcRoots' = [hcRoots EXCEPT ![l].tree[n] = k]
    /\ hcResult' = "notrun"
    /\ UNCHANGED notContentVars

\* Variant of the walk that lists the directory itself only (glob("*")).
WalkShallow(tree, t, k) ==
    IF k > MaxDepth \/ tree[<<t, k>>] = "none" THEN {} ELSE {<<t, k>>}

\* rglob("*") from <<t, k>> downwards: the entry and, for a directory,
\* what is beneath it; a symlink is passed out and not descended into.
RECURSIVE Walk(_, _, _)
Walk(tree, t, k) ==
    IF k > MaxDepth \/ tree[<<t, k>>] = "none" THEN {}
    ELSE {<<t, k>>}
         \cup (IF tree[<<t, k>>] = "dir" THEN Walk(tree, t, k + 1) ELSE {})

\* rootfs_path.rglob("*")
Rglob(r) ==
    IF r.root # "dir" THEN {} ELSE UNION {Walk(r.tree, t, 1) : t \in TopNames}

\* item.is_file() or item.is_symlink()
IsFileOrSymlink(kind) == kind = "file" \/ kind = "link"

\* has_rootfs_content(rootfs_paths)
HasRootfsContent(roots) ==
    \E l \in ListedPaths :
        /\ roots[l].root # "missing"
        /\ \E item \in Rglob(roots[l]) : IsFileOrSymlink(roots[l].tree[item])

ContentCall ==
    /\ hcResult = "notrun"
    /\ hcResult' = IF HasRootfsContent(hcRoots) THEN "True" ELSE "False"
    /\ UNCHANGED <<hcRoots, notContentVars>>

NextContent == ContentAddEntry \/ ContentCall

SpecContent == InitContent /\ [][NextContent]_vars

(***************************************************************************)
(* Properties of topological_sort and sort_images.                         *)
(***************************************************************************)
Pos(order, x) == CHOOSE i \in 1..Len(order) : order[i] = x

\* The keys a key depends on.
KeyDeps(d, k) == d.deps[k] \cap Range(d.keys)

\* The keys reachable from the keys S along dependencies.
RECURSIVE Reach(_, _)
Reach(d, S) ==
    LET T == S \cup UNION {KeyDeps(d, k) : k \in S}
    IN IF T = S THEN S ELSE Reach(d, T)

\* A dependency map has a cycle when some key depends on itself, directly
\* or through other keys.
HasCycle(d) == \E k \in Range(d.keys) : k \in Reach(d, KeyDeps(d, k))

\* All names that occur as a dependency of some key.
AllDeps(d) == UNION {d.deps[k] : k \in Range(d.keys)}

TopoCalled == topoResult.status # "notrun"

\* C2 as claimed: for every acyclic dependency map the output of
\* topological_sort is a permutation of the map's keys, every dependency
\* that is a key strictly before its dependents.
C2_OutputIsPermutationOfKeys ==
    (TopoCalled /\ ~HasCycle(dependencies)) =>
        /\ topoResult.status = "ok"
        /\ Len(topoResult.order) = Len(dependencies.keys)
        /\ Range(topoResult.order) = Range(dependencies.keys)
        /\ \A k \in Range(dependencies.keys) :
              \A dep \in KeyDeps(dependencies, k) :
                 Pos(topoResult.order, dep) < Pos(topoResult.order, k)

\* C2 amended: for every acyclic dependency map the output of
\* topological_sort holds every key exactly once and, besides the keys,
\* exactly once every dependency name that is not a key, and nothing else;
\* every dependency, key or not, is strictly before each of its dependents.
C2_OutputOrdersKeysAndForeignDeps ==
    (TopoCalled /\ ~HasCycle(dependencies)) =>
        /\ topoResult.status = "ok"
        /\ IsInjective(topoResult.order)
        /\ Range(topoResult.order)
             = Range(dependencies.keys) \cup AllDeps(dependencies)
        /\ \A k \in Range(dependencies.keys) :
              \A dep \in dependencies.deps[k] :
                 Pos(topoResult.order, dep) < Pos(topoResult.order, k)

\* An acyclic map was sorted in which one key depends on another key and
\* some key depends on a name that is not a key.
C2_Witness ==
    /\ topoResult.status = "ok"
    /\ \E k \in Range(dependencies.keys) : KeyDeps(dependencies, k) # {}
    /\ AllDeps(dependencies) \ Range(dependencies.keys) # {}

\* C3: for every dependency map with a cycle (a self-dependency included)
\* topological_sort raises CyclicDependencyError and returns no ordering,
\* not even of the keys outside the cycle.
C3_CycleRaisesWithoutOrdering ==
    (TopoCalled /\ HasCycle(dependencies)) =>
        /\ topoResult.status = "CyclicDependencyError"
        /\ topoResult.order = <<>>

\* A map with a cycle and with a key outside every cycle was rejected.
C3_Witness ==
    /\ topoResult.status = "CyclicDependencyError"
    /\ HasCycle(dependencies)
    /\ \E k \in Range(dependencies.keys) : dependencies.deps[k] = {}

SortCalled == sortResult.status # "notrun"

\* The names an image refers to: in its primary template, in the template
\* of one of its variants, or as the image it extends.
DeclaredRefs(image) ==
    image.tmpl
    \cup UNION {image.variants[v] : v \in 1..Len(image.variants)}
    \cup ({image.extends} \ {None})

\* The dependencies of a name when every image of that name counts.
UnionDeps(imgs) ==
    [keys |-> ExtractDependencies(imgs, EmptyDict).keys,
     deps |-> [n \in NamesInUse(imgs) |->
                 UNION {DeclaredRefs(imgs[i]) : i \in {j \in 1..Len(imgs) : imgs[j].name = n}}]]

\* The position in the sorted list of the image with path p.
PosOfPath(order, p) == CHOOSE i \in 1..Len(order) : order[i].path = p

\* C4: for every list of images whose dependencies among managed names are
\* acyclic, every image of the list sort_images returns comes after every
\* managed image this image itself depends on (template, variant template
\* or extends), also when several images share one name.
C4_EachImageAfterItsOwnDependencies ==
    (SortCalled /\ ~HasCycle(UnionDeps(images))) =>
        /\ sortResult.status = "ok"
        /\ \A i, j \in 1..Len(images) :
              images[j].name \in DeclaredRefs(images[i]) =>
                 /\ \E q \in 1..Len(sortResult.order) : sortResult.order[q].path = j
                 /\ \E q \in 1..Len(sortResult.order) : sortResult.order[q].path = i
                 /\ PosOfPath(sortResult.order, j) < PosOfPath(sortResult.order, i)

\* C5: for every input whose dependency map is acyclic sort_images returns
\* exactly the input images, each once; the images of one name are
\* adjacent and keep their relative order from the input list.
C5_SortKeepsEveryImageOnceGrouped ==
    (SortCalled /\ ~HasCycle(ExtractDependencies(images, EmptyDict))) =>
        /\ sortResult.status = "ok"
        /\ Len(sortResult.order) = Len(images)
        /\ \A i \in 1..Len(images) :
              \E q \in 1..Len(sortResult.order) : sortResult.order[q] = images[i]
        /\ \A q, r \in 1..Len(sortResult.order) :
              (q < r /\ sortResult.order[q].name = sortResult.order[r].name) =>
                 /\ sortResult.order[q].path < sortResult.order[r].path
                 /\ \A m \in q..r :
                       sortResult.order[m].name = sortResult.order[q].name

\* Three images were sorted of which the first and the last share a name
\* and the one between them has another name.
C5_Witness ==
    /\ sortResult.status = "ok"
    /\ Len(images) = 3
    /\ images[1].name = images[3].name
    /\ images[2].name # images[1].name

\* The names some image refers to that no image of the list has.
ForeignDeps(imgs) ==
    UNION {DeclaredRefs(imgs[i]) : i \in 1..Len(imgs)} \ NamesInUse(imgs)

\* C6: a dependency name that is not the name of any managed image never
\* makes sorting fail (sorting fails only with a cycle error, and only when
\* the managed names themselves form a cycle) and never is an element of
\* the ordering sort_images produces.
C6_ForeignDependencyIsIgnored ==
    SortCalled =>
        /\ sortResult.status \in {"ok", "CyclicDependencyError"}
        /\ sortResult.status = "CyclicDependencyError"
             <=> HasCycle(ExtractDependencies(images, EmptyDict))
        /\ \A q \in 1..Len(sortResult.order) :
              /\ sortResult.order[q].name \in NamesInUse(images)
              /\ sortResult.order[q].name \notin ForeignDeps(images)

\* Images were sorted of which one depends on a name no image has and one
\* depends on a managed image.
C6_Witness ==
    /\ sortResult.status = "ok"
    /\ ForeignDeps(images) # {}
    /\ \E i \in 1..Len(images) : DeclaredRefs(images[i]) \cap NamesInUse(images) # {}

\* images[b], images[m], images[p] are base (no dependencies), middle
\* (depends on base) and app (depends on middle).
IsChain(imgs, b, m, p) ==
    /\ Len(imgs) = 3
    /\ {b, m, p} = {1, 2, 3}
    /\ Cardinality(NamesInUse(imgs)) = 3
    /\ DeclaredRefs(imgs[b]) = {}
    /\ DeclaredRefs(imgs[m]) = {imgs[b].name}
    /\ DeclaredRefs(imgs[p]) = {imgs[m].name}

\* C7: base, middle and app sort to exactly [base, middle, app] for every
\* one of the six orders in which the three images can be passed in.
C7_ChainSortsToBaseMiddleApp ==
    SortCalled =>
        \A b, m, p \in 1..3 :
            IsChain(images, b, m, p) =>
                /\ sortResult.status = "ok"
                /\ sortResult.order = <<images[b], images[m], images[p]>>

\* The chain was passed in as [app, base, middle] and sorted.
C7_Witness ==
    /\ sortResult.status = "ok"
    /\ IsChain(images, 2, 3, 1)

\* C1: when the managed images contain a dependency cycle, generate ends
\* with exit code 1 and at no point of the run has a Dockerfile, a test
\* config, a merged rootfs tree, an alias file or a report been written.
C1_CycleAbortsBeforeAnyOutput ==
    (gpc # "idle" /\ HasCycle(UnionDeps(images))) =>
        /\ written = {}
        /\ gpc = "done" => exitCode = 1

\* The same for the cycles of the dependency map that extract_dependencies
\* hands to topological_sort.
GenExtractedCycleAbortsBeforeAnyOutput ==
    (gpc \in {"tags", "report", "done"}
       /\ HasCycle(ExtractDependencies(images, EmptyDict))) =>
        /\ written = {}
        /\ exitCode = 1

(***************************************************************************)
(* Properties of locking.                                                  *)
(***************************************************************************)
\* The bases whose section in the file had packages when the run began.
LockedBefore == {b \in Bases : fileBefore[b] # Absent /\ HasPackages(fileBefore[b])}

QueriedInRun(b) ==
    <<lrun, b, "package">> \in queries \/ <<lrun, b, "digest">> \in queries

RunEnded == lrun >= 1 /\ lpc = "done"

C9_TableFetchedOnceAndNeverChanged ==
    /\ fetches <= 1
    /\ Cardinality(held) <= 1

\* C10: while run_lock resolves the packages of a base, at most 8 lookups
\* are in flight at any moment; a lookup in flight can finish whatever the
\* others do, and the oldest queued lookup can start whenever fewer than 8
\* are in flight, whether the lookups before it are still running, have
\* failed or have returned a version.
C10_AtMostEightInFlightNoneBlocked ==
    /\ Cardinality(Running) <= 8
    /\ \A p \in Running : ENABLED PoolFinish(p)
    /\ (Queued # {} /\ Cardinality(Running) < 8) => ENABLED PoolStart
    /\ (poolStatus # <<>> /\ Finished # PoolPkgs) => ENABLED NextPool

\* Eight lookups are in flight and a ninth has failed: the last of them
\* was started after the failure, while seven slower ones were running.
C10_Witness ==
    /\ Cardinality(Running) = 8
    /\ \E p \in PoolPkgs : poolStatus[p] = None

\* C11: the section of a base is built only after every lookup dispatched
\* for the base has finished; then every requested package is in exactly
\* one of locked and not_found, once, and the package -> version map of the
\* section is decided by the results of the lookups alone, whatever the
\* order in which they completed.
C11_SectionBuiltFromAllResults ==
    builtSection # NotBuilt =>
        /\ Finished = PoolPkgs
        /\ \A p \in PoolPkgs :
              Cardinality({i \in 1..Len(locked) : locked[i][1] = p})
              + Cardinality({i \in 1..Len(notFound) : notFound[i] = p}) = 1
        /\ \A p \in PoolPkgs :
              (\E i \in 1..Len(notFound) : notFound[i] = p) <=> poolStatus[p] = None
        /\ builtSection.packages = [p \in PoolPkgs |-> poolStatus[p]]

\* A section was built from lookups that completed in another order than
\* they were submitted, one of them without a version.
C11_Witness ==
    /\ builtSection # NotBuilt
    /\ Len(locked) >= 2
    /\ locked[1][1] > locked[2][1]
    /\ notFound # <<>>

\* The run has gone through its loop over the bases and has ended.
RunCompleted == RunEnded /\ lidx > Len(lockEnv.tags)

\* C12: when the version of a package cannot be resolved, run_lock still
\* completes: the package is left out of the package map of its base,
\* every other package of the base that resolved is recorded with its
\* version, and the section is persisted.
C12_UnresolvedPackageIsLeftOut ==
    \A b \in Bases :
        (\E p \in Pkgs : <<lrun, b, p, None>> \in answers) =>
            /\ basesData[b] # Absent
            /\ \A p \in Pkgs, v \in NewVersions \cup {None} :
                  <<lrun, b, p, v>> \in answers => basesData[b].packages[p] = v
            /\ \A p \in Pkgs :
                  (\A v \in NewVersions \cup {None} : <<lrun, b, p, v>> \notin answers)
                     => basesData[b].packages[p] = None
            /\ RunEnded => /\ lexits[lrun] = 0
                           /\ lockFile[b] = basesData[b]

\* A run has ended in which one package of a base resolved and another
\* package of the same base did not.
C12_Witness ==
    /\ RunEnded
    /\ \E b \in Bases : \E p, q \in Pkgs :
          /\ <<lrun, b, p, None>> \in answers
          /\ \E v \in NewVersions : <<lrun, b, q, v>> \in answers
          /\ lockFile[b].packages[q] # None

\* A base yields a section when its section in the file can be reused or
\* its Dockerfiles install packages.
YieldsSection(b) == ReuseExisting(fileBefore, b) \/ lockEnv.pkgs[b] # {}

LastSourceWith(p) ==
    CHOOSE i \in 1..Len(rfSources) :
        /\ rfSources[i][p].kind \in {"file", "link"}
        /\ \A j \in 1..Len(rfSources) :
              rfSources[j][p].kind \in {"file", "link"} => j <= i

\* No source has a directory at a path where another has a file or symlink.
NoDirectoryClash ==
    \A p \in RootfsPaths :
        (\E i \in 1..Len(rfSources) : rfSources[i][p].kind = "dir") =>
            \A i \in 1..Len(rfSources) : rfSources[i][p].kind \in {"dir", "none"}

\* C14: after merge_rootfs into an empty dest, dest holds at every path
\* that is a regular file or a symlink in some source exactly the entry of
\* the last source that has it, replaced as a whole; where an earlier
\* source has a symlink and a later one a regular file, dest ends with a
\* regular file there and what the symlink pointed to is not altered, so
\* that dest holds nothing at a path no source has.
C14_LastSourceWinsEntryByEntry ==
    (rfStatus = "returned" /\ NoDirectoryClash) =>
        /\ \A p \in RootfsPaths :
              (\E i \in 1..Len(rfSources) : rfSources[i][p].kind \in {"file", "link"})
                 => rfDest[p] = rfSources[LastSourceWith(p)][p]
        /\ rfDest[OtherPath] = NoEntry

\* A regular file or a symlink exists somewhere beneath a listed path.
SomeFileOrSymlinkBeneath ==
    \E l \in ListedPaths, n \in Nodes : hcRoots[l].tree[n] \in {"file", "link"}

\* C15: has_rootfs_content is true exactly when a regular file or a
\* symlink exists at any depth beneath a listed path: false for trees of
\* nested empty directories only and for paths that do not exist, true as
\* soon as one file or symlink has been added anywhere.
C15_ContentIffFileOrSymlinkBeneath ==
    /\ hcResult = "True" => SomeFileOrSymlinkBeneath
    /\ hcResult = "False" => ~SomeFileOrSymlinkBeneath

\* The call returned True for a path that does not exist and a tree of
\* nested directories whose only other entry is a symlink at the bottom.
C15_Witness ==
    /\ hcResult = "True"
    /\ hcRoots["image/rootfs"].root = "missing"
    /\ \A n \in Nodes : hcRoots["version/rootfs"].tree[n] \in {"file", "link"}
                          => (n[2] = MaxDepth /\ hcRoots["version/rootfs"].tree[n] = "link")

(***************************************************************************)
(* Strings.  A tag name, a tag suffix and an alias are sequences of        *)
(* characters, so that splitting on ".", concatenation and the order of    *)
(* str are what Python computes.                                           *)
(***************************************************************************)
\* The characters used, in the order of their code points.
Alphabet ==
    <<"-", ".", "0", "1", "2", "3", "4", "5", "6", "7", "8", "9",
      "a", "b", "c", "d", "e", "f", "g", "h", "i", "j", "k", "l", "m",
      "n", "o", "p", "q", "r", "s", "t", "u", "v", "w", "x", "y", "z">>

\* ord(c)
Ord(c) == CHOOSE i \in 1..Len(Alphabet) : Alphabet[i] = c

\* c < d for two characters
CharLess(c, d) == Ord(c) < Ord(d)

\* a < b for two str: the first position at which they differ decides, a
\* proper prefix is smaller.
StrLess(a, b) ==
    \E k \in 1..(Len(a) + 1) :
        /\ k <= Len(b)
        /\ \A j \in 1..(k - 1) : a[j] = b[j]
        /\ (k = Len(a) + 1 \/ CharLess(a[k], b[k]))

\* a < b for two lists of str, in the same way.
PartsLess(a, b) ==
    \E k \in 1..(Len(a) + 1) :
        /\ k <= Len(b)
        /\ \A j \in 1..(k - 1) : a[j] = b[j]
        /\ (k = Len(a) + 1 \/ StrLess(a[k], b[k]))

\* s.split(".")
RECURSIVE Split(_)
Split(s) ==
    IF \A i \in 1..Len(s) : s[i] # "."
    THEN <<s>>
    ELSE LET i == CHOOSE j \in 1..Len(s) :
                     s[j] = "." /\ \A h \in 1..(j - 1) : s[h] # "."
         IN  <<SubSeq(s, 1, i - 1)>> \o Split(SubSeq(s, i + 1, Len(s)))

\* ".".join(parts)
RECURSIVE Join(_)
Join(parts) ==
    IF Len(parts) = 0 THEN <<>>
    ELSE IF Len(parts) = 1 THEN parts[1]
    ELSE parts[1] \o <<".">> \o Join(Tail(parts))

(***************************************************************************)
(* Merger.merge (manager/merger.py).  A map is a function whose domain is  *)
(* the set of its keys.                                                    *)
(***************************************************************************)
\* Variant of the merge in which the value of base is kept.
MergeBaseWins(base, override) ==
    [k \in DOMAIN base \cup DOMAIN override |->
        IF k \in DOMAIN base THEN base[k] ELSE override[k]]

\* merge(base, override): a new map, the inputs are left as they are.
Merge(base, override) ==
    [k \in DOMAIN base \cup DOMAIN override |->
        IF k \in DOMAIN override THEN override[k] ELSE base[k]]

(***************************************************************************)
(* Optional settings: rootfs_user is str | None, rootfs_copy bool | None.  *)
(***************************************************************************)
NoneStr == [set |-> FALSE, value |-> ""]
NoneBool == [set |-> FALSE, value |-> FALSE]
Some(v) == [set |-> TRUE, value |-> v]

\* x is not None
IsNotNone(x) == x.set

\* x or default, for x a str | None: None and "" are both false.
OrDefault(x, default) == IF x.set /\ x.value # "" THEN x.value ELSE default

\* x if x is not None else default
ElseDefault(x, default) == IF IsNotNone(x) THEN x.value ELSE default

(***************************************************************************)
(* TagGenerator.generate_variant_tags (manager/tag_generator.py).          *)
(***************************************************************************)
\* Variant of the generator that derives tags from the first base tag only.
GenerateVariantTagsFirstOnly(base_tags, variant, image_versions, image_variables) ==
    [i \in 1..(IF Len(base_tags) = 0 THEN 0 ELSE 1) |->
        [name |-> base_tags[i].name \o variant.tag_suffix,
         versions |-> Merge(Merge(image_versions, base_tags[i].versions),
                            variant.versions),
         variables |-> Merge(Merge(image_variables, base_tags[i].variables),
                             variant.variables),
         rootfs_user |-> ElseDefault(variant.rootfs_user, base_tags[i].rootfs_user),
         rootfs_copy |-> ElseDefault(variant.rootfs_copy, base_tags[i].rootfs_copy)]]

\* Variant of the generator in which the base tag overrides the variant.
GenerateVariantTagsTagWins(base_tags, variant, image_versions, image_variables) ==
    [i \in 1..Len(base_tags) |->
        [name |-> base_tags[i].name \o variant.tag_suffix,
         versions |-> Merge(Merge(image_versions, variant.versions),
                            base_tags[i].versions),
         variables |-> Merge(Merge(image_variables, variant.variables),
                             base_tags[i].variables),
         rootfs_user |-> ElseDefault(variant.rootfs_user, base_tags[i].rootfs_user),
         rootfs_copy |-> ElseDefault(variant.rootfs_copy, base_tags[i].rootfs_copy)]]

\* One variant tag for each base tag, in the order of the base tags.
GenerateVariantTags(base_tags, variant, image_versions, image_variables) ==
    [i \in 1..Len(base_tags) |->
        [name |-> base_tags[i].name \o variant.tag_suffix,
         versions |-> Merge(Merge(image_versions, base_tags[i].versions),
                            variant.versions),
         variables |-> Merge(Merge(image_variables, base_tags[i].variables),
                             variant.variables),
         rootfs_user |-> ElseDefault(variant.rootfs_user, base_tags[i].rootfs_user),
         rootfs_copy |-> ElseDefault(variant.rootfs_copy, base_tags[i].rootfs_copy)]]

(***************************************************************************)
(* generate_semver_aliases (manager/alias_generator.py): the aliases of a  *)
(* list of tag names.                                                      *)
(***************************************************************************)
\* The prefixes of 1 to N-1 components of a name of N components.
AliasCandidates(name) ==
    {SubSeq(Split(name), 1, n) : n \in 1..(Len(Split(name)) - 1)}

\* The first components of the tag are those of the alias, as strings.
MatchesPrefix(alias_parts, tag_parts) ==
    /\ Len(alias_parts) <= Len(tag_parts)
    /\ SubSeq(tag_parts, 1, Len(alias_parts)) = alias_parts

\* Variant of the choice that takes the smallest of the relevant tags.
Earliest(relevant_tags) ==
    CHOOSE t \in relevant_tags : \A u \in relevant_tags : ~PartsLess(u, t)

\* sorted(relevant_tags, reverse=True)[0]
Latest(relevant_tags) ==
    CHOOSE t \in relevant_tags : \A u \in relevant_tags : ~PartsLess(t, u)

\* The tags of names that an alias stands for, each split into components.
RelevantTags(names, alias_parts) ==
    {Split(names[i]) : i \in {j \in 1..Len(names) :
                                 MatchesPrefix(alias_parts, Split(names[j]))}}

\* The map alias -> tag name.
GenerateSemverAliases(names) ==
    LET candidates == UNION {AliasCandidates(names[i]) : i \in 1..Len(names)}
    IN  [a \in {Join(c) : c \in candidates} |->
            Join(Latest(RelevantTags(names, Split(a))))]

(***************************************************************************)
(* ModelResolver.resolve (manager/models.py): an ImageConfig becomes an    *)
(* Image.  The templates of the image and of its variants exist.           *)
(***************************************************************************)
NotResolved == [resolved |-> FALSE]

\* tag_rootfs_user, tag_rootfs_copy of a tag
TagRootfsUser(cfg, tag_config) ==
    IF IsNotNone(tag_config.rootfs_user) THEN tag_config.rootfs_user.value
    ELSE OrDefault(cfg.rootfs_user, "0:0")
TagRootfsCopy(cfg, tag_config) ==
    IF IsNotNone(tag_config.rootfs_copy) THEN tag_config.rootfs_copy.value
    ELSE ElseDefault(cfg.rootfs_copy, TRUE)

\* The loop over config.tags.
BaseTags(cfg) ==
    [i \in 1..Len(cfg.tags) |->
        [name |-> cfg.tags[i].name,
         versions |-> Merge(cfg.versions, cfg.tags[i].versions),
         variables |-> Merge(cfg.variables, cfg.tags[i].variables),
         rootfs_user |-> TagRootfsUser(cfg, cfg.tags[i]),
         rootfs_copy |-> TagRootfsCopy(cfg, cfg.tags[i])]]

\* The names of a list of tags.
TagNamesOf(tags) == [i \in 1..Len(tags) |-> tags[i].name]

\* Variant of variant_aliases in which an alias taken from the base tags
\* keeps the base tag as its target.
VariantAliasesBaseTarget(aliases, variant_tags, suffix) ==
    LET generated == GenerateSemverAliases(TagNamesOf(variant_tags))
        fromBase ==
            [k \in {a \o suffix : a \in DOMAIN aliases} |->
                aliases[CHOOSE a \in DOMAIN aliases : a \o suffix = k]]
    IN  [k \in DOMAIN generated \cup DOMAIN fromBase |->
            IF k \in DOMAIN fromBase THEN fromBase[k] ELSE generated[k]]

\* Variant of variant_aliases in which a generated alias is not replaced.
VariantAliasesGeneratedWins(aliases, variant_tags, suffix) ==
    LET generated == GenerateSemverAliases(TagNamesOf(variant_tags))
        fromBase ==
            [k \in {a \o suffix : a \in DOMAIN aliases} |->
                aliases[CHOOSE a \in DOMAIN aliases : a \o suffix = k] \o suffix]
    IN  [k \in DOMAIN generated \cup DOMAIN fromBase |->
            IF k \in DOMAIN generated THEN generated[k] ELSE fromBase[k]]

\* variant_aliases: those generated from the variant tags, then one for
\* every alias of the base tags, which replaces a generated one of its name.
VariantAliases(aliases, variant_tags, suffix) ==
    LET generated == GenerateSemverAliases(TagNamesOf(variant_tags))
        fromBase ==
            [k \in {a \o suffix : a \in DOMAIN aliases} |->
                aliases[CHOOSE a \in DOMAIN aliases : a \o suffix = k] \o suffix]
    IN  [k \in DOMAIN generated \cup DOMAIN fromBase |->
            IF k \in DOMAIN fromBase THEN fromBase[k] ELSE generated[k]]

\* variant_rootfs_user, variant_rootfs_copy of a variant
VariantRootfsUser(cfg, variant_config) ==
    IF IsNotNone(variant_config.rootfs_user) THEN variant_config.rootfs_user.value
    ELSE OrDefault(cfg.rootfs_user, "0:0")
VariantRootfsCopy(cfg, variant_config) ==
    IF IsNotNone(variant_config.rootfs_copy) THEN variant_config.rootfs_copy.value
    ELSE ElseDefault(cfg.rootfs_copy, TRUE)

\* The loop over config.variants.
ResolvedVariants(cfg, base_tags, aliases) ==
    [j \in 1..Len(cfg.variants) |->
        LET variant_tags == GenerateVariantTags(base_tags, cfg.variants[j],
                                                cfg.versions, cfg.variables)
        IN  [name |-> cfg.variants[j].name,
             tags |-> variant_tags,
             aliases |-> VariantAliases(aliases, variant_tags,
                                        cfg.variants[j].tag_suffix),
             rootfs_user |-> VariantRootfsUser(cfg, cfg.variants[j]),
             rootfs_copy |-> VariantRootfsCopy(cfg, cfg.variants[j])]]

\* image_rootfs_user, image_rootfs_copy
ImageRootfsUser(cfg) == OrDefault(cfg.rootfs_user, "0:0")
ImageRootfsCopy(cfg) == ElseDefault(cfg.rootfs_copy, TRUE)

\* The Image that resolve returns.
ResolveImage(cfg) ==
    LET base_tags == BaseTags(cfg)
        aliases == GenerateSemverAliases(TagNamesOf(base_tags))
    IN  [versions |-> cfg.versions,
         variables |-> cfg.variables,
         tags |-> base_tags,
         variants |-> ResolvedVariants(cfg, base_tags, aliases),
         aliases |-> aliases,
         rootfs_user |-> ImageRootfsUser(cfg),
         rootfs_copy |-> ImageRootfsCopy(cfg)]

\* The names of the tags of a configuration, by position.
TagNameList ==
    << <<"3", ".", "1", "3", ".", "7">>, <<"3", ".", "1", "3", ".", "6">>,
       <<"3", ".", "9", ".", "1">>, <<"3", ".", "1", "0", ".", "0">> >>
VariantName == "browser"
TagSuffix == <<"-", "b", "r", "o", "w", "s", "e", "r">>

\* The keys of versions and of variables.  The value of a key tells the
\* level that set it.
VersionKeys == {"uv", "python"}
VariableKeys == {"ENV"}
LevelMap(keys, level) == [k \in keys |-> level]

\* What a level can say of rootfs_user and of rootfs_copy.
ImageUsers == {NoneStr, Some(""), Some("1000:1000")}
LevelUsers == {NoneStr, Some(""), Some("0:0")}
Copies == {NoneBool, Some(TRUE), Some(FALSE)}

\* What a level (image, tag or variant) can say.  The four settings are
\* resolved independently of each other: a configuration of the family
\* "versions" sets versions at its levels and leaves the other settings
\* unset, and likewise for "variables", "rootfs_user" and "rootfs_copy".
Families == {"versions", "variables", "rootfs_user", "rootfs_copy"}
Unset == [versions |-> <<>>, variables |-> <<>>,
          rootfs_user |-> NoneStr, rootfs_copy |-> NoneBool]
LevelConfigs(family, level) ==
    CASE family = "versions" ->
            {[Unset EXCEPT !.versions = LevelMap(k, level)] : k \in SUBSET VersionKeys}
      [] family = "variables" ->
            {[Unset EXCEPT !.variables = LevelMap(k, level)] : k \in SUBSET VariableKeys}
      [] family = "rootfs_user" ->
            {[Unset EXCEPT !.rootfs_user = u] :
                u \in (IF level = "image" THEN ImageUsers ELSE LevelUsers)}
      [] family = "rootfs_copy" ->
            {[Unset EXCEPT !.rootfs_copy = c] : c \in Copies}

TagConfigOf(i, l) ==
    [name |-> TagNameList[i], versions |-> l.versions, variables |-> l.variables,
     rootfs_user |-> l.rootfs_user, rootfs_copy |-> l.rootfs_copy]

VariantConfigOf(l) ==
    [name |-> VariantName, tag_suffix |-> TagSuffix,
     versions |-> l.versions, variables |-> l.variables,
     rootfs_user |-> l.rootfs_user, rootfs_copy |-> l.rootfs_copy]

notResolverVars == <<topoVars, sortVars, genVars, lockingVars, resolveVars, mergeVars,
                     contentVars, mergerVars, aliasVars, lateVars>>

\* A configuration of up to MaxTags tags and at most one variant.
InitResolver ==
    /\ \E n \in 0..MaxTags, family \in Families :
       \E img \in LevelConfigs(family, "image") :
       \E ts \in [1..n -> LevelConfigs(family, "tag")] :
       \E vs \in {<<>>} \cup {<<v>> : v \in LevelConfigs(family, "variant")} :
          config = [versions |-> img.versions, variables |-> img.variables,
                    rootfs_user |-> img.rootfs_user, rootfs_copy |-> img.rootfs_copy,
                    tags |-> [i \in 1..n |-> TagConfigOf(i, ts[i])],
                    variants |-> [j \in 1..Len(vs) |-> VariantConfigOf(vs[j])]]
    /\ resolved = NotResolved
    /\ TopoIdle /\ SortIdle /\ GenIdle /\ LockingIdle
    /\ ResolveIdle /\ MergeIdle /\ ContentIdle /\ MergerIdle /\ AliasIdle
    /\ LateIdle

\* resolver.resolve(config, path)
Resolve ==
    /\ resolved = NotResolved
    /\ resolved' = ResolveImage(config)
    /\ UNCHANGED <<config, notResolverVars>>

NextResolver == Resolve

SpecResolver == InitResolver /\ [][NextResolver]_vars

\* The value a setting is to have: the level's own when it is not null,
\* else the inherited one when that is not null, else the default.
ExpectedSetting(own, inherited, default) ==
    IF own.set THEN own.value
    ELSE IF inherited.set THEN inherited.value
    ELSE default

\* C16: rootfs_user and rootfs_copy of every resolved tag are the tag's own
\* configured value when that is not null, else the image's configured value
\* when that is not null, else the default ("0:0", true); the same holds of
\* every resolved variant with respect to the image; and the image's own
\* configured value, when not null, is not replaced by the default.
C16_RootfsSettingsInheritExplicitValue ==
    resolved # NotResolved =>
        /\ \A i \in 1..Len(config.tags) :
              /\ resolved.tags[i].rootfs_user =
                    ExpectedSetting(config.tags[i].rootfs_user, config.rootfs_user, "0:0")
              /\ resolved.tags[i].rootfs_copy =
                    ExpectedSetting(config.tags[i].rootfs_copy, config.rootfs_copy, TRUE)
        /\ \A j \in 1..Len(config.variants) :
              /\ resolved.variants[j].rootfs_user =
                    ExpectedSetting(config.variants[j].rootfs_user, config.rootfs_user, "0:0")
              /\ resolved.variants[j].rootfs_copy =
                    ExpectedSetting(config.variants[j].rootfs_copy, config.rootfs_copy, TRUE)
        /\ resolved.rootfs_user = ExpectedSetting(config.rootfs_user, NoneStr, "0:0")
        /\ resolved.rootfs_copy = ExpectedSetting(config.rootfs_copy, NoneBool, TRUE)

\* The same with the image's rootfs_user either null or not empty.
RootfsSettingsInheritUnlessEmpty ==
    config.rootfs_user # Some("") => C16_RootfsSettingsInheritExplicitValue

(***************************************************************************)
(* One call of Merger.merge on two maps of its caller.                     *)
(***************************************************************************)
NotMerged == [merged |-> FALSE]
MergeKeys == {"uv", "python", "chromium"}
MergeValues == {"0.8.22", "120.0"}
Maps == UNION {[k -> MergeValues] : k \in SUBSET MergeKeys}

notMergerVars == <<topoVars, sortVars, genVars, lockingVars, resolveVars, mergeVars,
                   contentVars, resolverVars, aliasVars, lateVars>>

InitMerger ==
    /\ mBase \in Maps
    /\ mOverride \in Maps
    /\ mResult = NotMerged
    /\ TopoIdle /\ SortIdle /\ GenIdle /\ LockingIdle
    /\ ResolveIdle /\ MergeIdle /\ ContentIdle /\ ResolverIdle /\ AliasIdle
    /\ LateIdle

\* Merger.merge(base, override)
MergerMerge ==
    /\ mResult = NotMerged
    /\ mResult' = Merge(mBase, mOverride)
    /\ UNCHANGED <<mBase, mOverride, notMergerVars>>

NextMerger == MergerMerge

SpecMerger == InitMerger /\ [][NextMerger]_vars

\* C17: the map that merge(base, override) returns has exactly the keys of
\* base together with the keys of override; every key of override carries
\* override's value, every key that is only in base carries base's value;
\* and the call leaves both of its inputs as they were.
C17_MergeOverrideWinsInputsKept ==
    [][mResult' # NotMerged =>
          /\ DOMAIN mResult' = DOMAIN mBase \cup DOMAIN mOverride
          /\ \A k \in DOMAIN mOverride : mResult'[k] = mOverride[k]
          /\ \A k \in DOMAIN mBase \ DOMAIN mOverride : mResult'[k] = mBase[k]
          /\ mBase' = mBase
          /\ mOverride' = mOverride]_vars

\* A merge of two maps that share a key on whose value they differ, each
\* with a key of its own.
C17_Witness ==
    /\ mResult # NotMerged
    /\ \E k \in DOMAIN mBase \cap DOMAIN mOverride : mBase[k] # mOverride[k]
    /\ DOMAIN mBase \ DOMAIN mOverride # {}
    /\ DOMAIN mOverride \ DOMAIN mBase # {}

\* C18: for every variant, generate_variant_tags returns exactly one tag
\* for each base tag, in the order of the base tags; the i-th returned tag
\* is named the i-th base tag's name followed by the variant's tag_suffix,
\* and the number of returned tags is the number of base tags.
C18_OneVariantTagPerBaseTagInOrder ==
    resolved # NotResolved =>
        \A j \in 1..Len(config.variants) :
            /\ Len(resolved.variants[j].tags) = Len(resolved.tags)
            /\ Len(resolved.tags) = Len(config.tags)
            /\ \A i \in 1..Len(config.tags) :
                  /\ resolved.tags[i].name = config.tags[i].name
                  /\ resolved.variants[j].tags[i].name =
                        config.tags[i].name \o config.variants[j].tag_suffix

\* An image of two tags of different names and a variant has been resolved.
C18_Witness ==
    /\ resolved # NotResolved
    /\ Len(config.tags) = 2
    /\ config.tags[1].name # config.tags[2].name
    /\ Len(resolved.variants) = 1
    /\ Len(resolved.variants[1].tags) = 2

\* The three-level merge of the maps image, tag and variant.
ThreeLevel(image, tag, variant) ==
    [k \in DOMAIN image \cup DOMAIN tag \cup DOMAIN variant |->
        IF k \in DOMAIN variant THEN variant[k]
        ELSE IF k \in DOMAIN tag THEN tag[k]
        ELSE image[k]]

\* C19: the versions of every variant tag, and likewise its variables, are
\* the three-level merge image -> base tag -> variant: a key the variant
\* defines has the variant's value, else a key the base tag defines has the
\* tag's value, else a key the image defines has the image's value, and
\* there are no other keys.
C19_VariantTagMergesThreeLevels ==
    resolved # NotResolved =>
        \A j \in 1..Len(config.variants) :
            /\ DOMAIN resolved.variants[j].tags = 1..Len(config.tags)
            /\ \A i \in 1..Len(config.tags) :
                  /\ resolved.variants[j].tags[i].versions =
                        ThreeLevel(config.versions, config.tags[i].versions,
                                   config.variants[j].versions)
                  /\ resolved.variants[j].tags[i].variables =
                        ThreeLevel(config.variables, config.tags[i].variables,
                                   config.variants[j].variables)

\* A variant tag has been resolved where image, tag and variant all set
\* "uv" and the image alone sets "python".
C19_Witness ==
    /\ resolved # NotResolved
    /\ Len(config.variants) = 1
    /\ \E i \in 1..Len(config.tags) :
          /\ "uv" \in DOMAIN config.versions \cap DOMAIN config.tags[i].versions
                         \cap DOMAIN config.variants[1].versions
          /\ "python" \in DOMAIN config.versions
          /\ "python" \notin DOMAIN config.tags[i].versions
                               \cup DOMAIN config.variants[1].versions
          /\ resolved.variants[1].tags[i].versions =
                [uv |-> "variant", python |-> "image"]

(***************************************************************************)
(* One call of generate_semver_aliases on a list of tags.                  *)
(***************************************************************************)
NoAliases == [done |-> FALSE, aliases |-> <<>>]

\* Most tags in a list handed to generate_semver_aliases.
MaxAliasTags == 3

Tag_3_13_7 == <<"3", ".", "1", "3", ".", "7">>
Tag_3_13_6 == <<"3", ".", "1", "3", ".", "6">>
Tag_3_12_0 == <<"3", ".", "1", "2", ".", "0">>
Tag_3_9_1 == <<"3", ".", "9", ".", "1">>
Tag_3_10_0 == <<"3", ".", "1", "0", ".", "0">>
Tag_3_13 == <<"3", ".", "1", "3">>
Tag_latest == <<"l", "a", "t", "e", "s", "t">>
AliasTagNames ==
    {Tag_3_13_7, Tag_3_13_6, Tag_3_12_0, Tag_3_9_1, Tag_3_10_0, Tag_3_13, Tag_latest}

notAliasVars == <<topoVars, sortVars, genVars, lockingVars, resolveVars, mergeVars,
                  contentVars, resolverVars, mergerVars, lateVars>>

InitAlias ==
    /\ \E n \in 0..MaxAliasTags : alTags \in [1..n -> AliasTagNames]
    /\ alResult = NoAliases
    /\ TopoIdle /\ SortIdle /\ GenIdle /\ LockingIdle
    /\ ResolveIdle /\ MergeIdle /\ ContentIdle /\ ResolverIdle /\ MergerIdle
    /\ LateIdle

\* generate_semver_aliases(tags)
AliasGenerate ==
    /\ alResult = NoAliases
    /\ alResult' = [done |-> TRUE, aliases |-> GenerateSemverAliases(alTags)]
    /\ UNCHANGED <<alTags, notAliasVars>>

NextAlias == AliasGenerate

SpecAlias == InitAlias /\ [][NextAlias]_vars

\* The names of the list of tags.
GivenTags == {alTags[i] : i \in 1..Len(alTags)}

\* The leading components of the name are the components of the alias.
LedBy(name, alias) ==
    /\ Len(Split(alias)) <= Len(Split(name))
    /\ \A n \in 1..Len(Split(alias)) : Split(name)[n] = Split(alias)[n]

\* The names made of the first 1 to N-1 of the N components of a name.
ProperPrefixes(name) ==
    {Join(SubSeq(Split(name), 1, n)) : n \in 1..(Len(Split(name)) - 1)}

\* C20: the keys of the alias map are exactly the proper dot-prefixes (1 to
\* N-1 leading components) of the tags; each alias maps to a tag whose
\* leading components equal the alias components as strings and than which
\* no other such tag is greater when the component tuples are compared
\* component by component as strings, so that "9" beats "10"; and the tags
\* 3.13.7, 3.13.6, 3.12.0 yield 3 -> 3.13.7, 3.13 -> 3.13.7, 3.12 -> 3.12.0.
C20_AliasesAreLatestByStringOrder ==
    alResult.done =>
        /\ DOMAIN alResult.aliases = UNION {ProperPrefixes(t) : t \in GivenTags}
        /\ \A a \in DOMAIN alResult.aliases :
              /\ alResult.aliases[a] \in GivenTags
              /\ LedBy(alResult.aliases[a], a)
              /\ \A u \in GivenTags :
                    LedBy(u, a) => ~PartsLess(Split(alResult.aliases[a]), Split(u))
        /\ alTags = <<Tag_3_13_7, Tag_3_13_6, Tag_3_12_0>> =>
              alResult.aliases = (<<"3">> :> Tag_3_13_7) @@
                                 (<<"3", ".", "1", "3">> :> Tag_3_13_7) @@
                                 (<<"3", ".", "1", "2">> :> Tag_3_12_0)
        /\ GivenTags = {Tag_3_9_1, Tag_3_10_0} =>
              alResult.aliases[<<"3">>] = Tag_3_9_1

\* The aliases of a list that holds 3.9.1, 3.10.0 and 3.13.7 have been
\* generated, and "3" stands for 3.9.1.
C20_Witness ==
    /\ alResult.done
    /\ GivenTags = {Tag_3_9_1, Tag_3_10_0, Tag_3_13_7}
    /\ alResult.aliases[<<"3">>] = Tag_3_9_1

(***************************************************************************)
(* The tags and aliases of one image: resolve, then the alias files that   *)
(* generate writes into the image's output directory                       *)
(* (manager/__main__.py, cmd_generate).                                    *)
(***************************************************************************)
Tag_13_1 == <<"1", "3", ".", "1">>
Tag_1_5 == <<"1", ".", "5">>
NamesOfTags == {Tag_3_13_7, Tag_3_13_6, Tag_3_13, Tag_13_1, Tag_1_5}
Suffixes == {TagSuffix, <<"-", "s", "l", "i", "m">>, <<"3">>}
VariantNames == <<"browser", "slim">>

\* The lists of tag_suffix of the variants of a configuration.
SuffixLists ==
    {<<>>} \cup {<<a>> : a \in Suffixes} \cup {<<a, b>> : a \in Suffixes, b \in Suffixes}

\* A configuration that sets names and suffixes and nothing else.
NamedConfig(names, suffixes) ==
    [versions |-> <<>>, variables |-> <<>>,
     rootfs_user |-> NoneStr, rootfs_copy |-> NoneBool,
     tags |-> [i \in 1..Len(names) |->
                 [name |-> names[i], versions |-> <<>>, variables |-> <<>>,
                  rootfs_user |-> NoneStr, rootfs_copy |-> NoneBool]],
     variants |-> [j \in 1..Len(suffixes) |->
                     [name |-> VariantNames[j], tag_suffix |-> suffixes[j],
                      versions |-> <<>>, variables |-> <<>>,
                      rootfs_user |-> NoneStr, rootfs_copy |-> NoneBool]]]

notAliasFileVars == <<topoVars, sortVars, genVars, lockingVars, resolveVars, mergeVars,
                      contentVars, pureVars, otherAliasFileVars>>

\* Any list of tag names is accepted by the loader, also one that repeats
\* a name.
InitTags ==
    /\ \E n \in 0..MaxTags : \E names \in [1..n -> NamesOfTags] :
       \E suffixes \in SuffixLists :
          config = NamedConfig(names, suffixes)
    /\ resolved = NotResolved
    /\ aliasFiles = <<>> /\ awDict = 0 /\ awDone = {} /\ apc = "load"
    /\ TopoIdle /\ SortIdle /\ GenIdle /\ LockingIdle
    /\ ResolveIdle /\ MergeIdle /\ ContentIdle /\ MergerIdle /\ AliasIdle
    /\ OtherAliasFileIdle

\* The directories tag_out_path and variant_out_path that the rendering of
\* the tags has made in the image's output directory.
TagDirs(image) ==
    {image.tags[i].name : i \in 1..Len(image.tags)}
    \cup UNION {{image.variants[j].tags[i].name : i \in 1..Len(image.variants[j].tags)} :
                   j \in 1..Len(image.variants)}

\* The dict whose aliases are being written.
CurrentAliases ==
    IF awDict = 0 THEN resolved.aliases ELSE resolved.variants[awDict].aliases

\* The tags of the image and of its variants have been rendered.
GenRenderTags ==
    /\ apc = "load"
    /\ resolved # NotResolved
    /\ apc' = "aliases"
    /\ UNCHANGED <<aliasFiles, awDict, awDone, notAliasFileVars>>

\* alias_out_path.write_text(tag_name) for one alias of the current dict;
\* writing to a path that is a directory raises.
GenWriteAlias(alias) ==
    /\ apc = "aliases"
    /\ alias \in DOMAIN CurrentAliases \ awDone
    /\ IF alias \in TagDirs(resolved)
       THEN /\ apc' = "raised"
            /\ UNCHANGED <<aliasFiles, awDone>>
       ELSE /\ aliasFiles' =
                  [k \in DOMAIN aliasFiles \cup {alias} |->
                      IF k = alias THEN CurrentAliases[alias] ELSE aliasFiles[k]]
            /\ awDone' = awDone \cup {alias}
            /\ apc' = apc
    /\ UNCHANGED <<awDict, notAliasFileVars>>

\* The loop over a dict has ended: on to the aliases of the next variant.
GenNextAliases ==
    /\ apc = "aliases"
    /\ awDone = DOMAIN CurrentAliases
    /\ IF awDict < Len(resolved.variants)
       THEN awDict' = awDict + 1 /\ apc' = apc
       ELSE awDict' = awDict /\ apc' = "done"
    /\ awDone' = {}
    /\ UNCHANGED <<aliasFiles, notAliasFileVars>>

NextTags ==
    \/ Resolve
    \/ GenRenderTags
    \/ /\ resolved # NotResolved
       /\ \E alias \in DOMAIN CurrentAliases : GenWriteAlias(alias)
    \/ GenNextAliases

SpecTags == InitTags /\ [][NextTags]_vars

\* The names of a list of resolved tags, as a set.
NameSet(tags) == {tags[i].name : i \in 1..Len(tags)}

\* C21: in every resolved Image each target in image.aliases is the name of
\* a tag in image.tags, and each target in a variant's aliases, generated
\* from the variant's tags or derived from a base alias by appending the
\* suffix, is the name of a tag in that variant's tags.
C21_AliasTargetsAreTagsOfTheSameList ==
    resolved # NotResolved =>
        /\ \A a \in DOMAIN resolved.aliases :
              resolved.aliases[a] \in NameSet(resolved.tags)
        /\ \A j \in 1..Len(resolved.variants) :
              \A a \in DOMAIN resolved.variants[j].aliases :
                 resolved.variants[j].aliases[a] \in NameSet(resolved.variants[j].tags)

\* An image has been resolved whose variant has an alias derived from a
\* base alias.
C21_Witness ==
    /\ resolved # NotResolved
    /\ Len(resolved.variants) >= 1
    /\ \E a \in DOMAIN resolved.aliases :
          /\ config.variants[1].tag_suffix # <<>>
          /\ a \o config.variants[1].tag_suffix \in DOMAIN resolved.variants[1].aliases

\* The target that the dicts written so far leave in the alias file k: that
\* of the last of image.aliases, variants[1].aliases, ... that holds k.
LastRegistered(k) ==
    LET holders == {j \in 1..Len(resolved.variants) :
                       k \in DOMAIN resolved.variants[j].aliases}
    IN  IF holders = {} THEN resolved.aliases[k]
        ELSE resolved.variants[CHOOSE j \in holders : \A h \in holders : h <= j].aliases[k]

\* C22: when one alias string is registered more than once, the
\* registration processed last determines its target: inside a variant the
\* alias derived from a base alias plus the suffix replaces an equal alias
\* generated from the variant's own tags, and of the alias files that
\* generate has written for the image each holds the target of the last
\* dict that has the alias, a later variant before an earlier one, a variant
\* before the base aliases.
C22_LastRegistrationWins ==
    resolved # NotResolved =>
        /\ \A j \in 1..Len(resolved.variants) : \A a \in DOMAIN resolved.aliases :
              resolved.variants[j].aliases[a \o config.variants[j].tag_suffix] =
                 resolved.aliases[a] \o config.variants[j].tag_suffix
        /\ apc = "done" =>
              /\ DOMAIN aliasFiles =
                    DOMAIN resolved.aliases
                    \cup UNION {DOMAIN resolved.variants[j].aliases :
                                   j \in 1..Len(resolved.variants)}
              /\ \A k \in DOMAIN aliasFiles : aliasFiles[k] = LastRegistered(k)

\* generate has written the alias files of an image in whose variant an
\* alias derived from a base alias met a generated one of another target,
\* and an alias file of the base aliases was written again for the variant
\* with another target.
C22_Witness ==
    /\ apc = "done"
    /\ Len(resolved.variants) = 1
    /\ \E a \in DOMAIN resolved.aliases :
          LET k == a \o config.variants[1].tag_suffix
              generated == GenerateSemverAliases(TagNamesOf(resolved.variants[1].tags))
          IN  /\ k \in DOMAIN generated
              /\ generated[k] # resolved.aliases[a] \o config.variants[1].tag_suffix
    /\ \E k \in DOMAIN resolved.aliases \cap DOMAIN resolved.variants[1].aliases :
          /\ resolved.aliases[k] # resolved.variants[1].aliases[k]
          /\ aliasFiles[k] = resolved.variants[1].aliases[k]

\* C23: in every resolved Image the names of the base tags are pairwise
\* distinct, and within each variant the names of the variant tags are
\* pairwise distinct, whatever configuration the loader accepted.
C23_TagNamesAreDistinct ==
    resolved # NotResolved =>
        /\ \A i1, i2 \in 1..Len(resolved.tags) :
              resolved.tags[i1].name = resolved.tags[i2].name => i1 = i2
        /\ \A j \in 1..Len(resolved.variants) :
              \A i1, i2 \in 1..Len(resolved.variants[j].tags) :
                 resolved.variants[j].tags[i1].name = resolved.variants[j].tags[i2].name
                    => i1 = i2

\* The same for the configurations in which no two tags have one name.
TagNamesDistinctIfConfigured ==
    (\A i1, i2 \in 1..Len(config.tags) :
        config.tags[i1].name = config.tags[i2].name => i1 = i2)
       => C23_TagNamesAreDistinct

(***************************************************************************)
(* TemplateResolver.resolve (manager/template_resolver.py).                *)
(***************************************************************************)
DefaultTemplate == "Dockerfile.jinja2"

\* f"Dockerfile.{variant_name}.jinja2"
VariantTemplate(variant_name) ==
    CASE variant_name = "browser" -> "Dockerfile.browser.jinja2"
      [] variant_name = "slim" -> "Dockerfile.slim.jinja2"

TemplateFiles ==
    {"custom.jinja2", DefaultTemplate, VariantTemplate("browser"), VariantTemplate("slim")}
ExplicitArgs == {NoneStr, Some(""), Some("custom.jinja2"), Some(DefaultTemplate)}
VariantArgs == {NoneStr, Some(""), Some("browser"), Some("slim")}

NotCalled == [kind |-> "none", path |-> "", searched |-> <<>>]
Returned(path) == [kind |-> "path", path |-> path, searched |-> <<>>]
FileNotFound(searched) == [kind |-> "error", path |-> "", searched |-> searched]

\* if x: for x a str | None
Truthy(x) == x.set /\ x.value # ""

\* Variant of resolve that goes on to the other files when the explicit
\* template does not exist.
TemplateResolveFallThrough(dir, explicit, variant_name) ==
    IF Truthy(explicit) /\ explicit.value \in dir
    THEN Returned(explicit.value)
    ELSE IF Truthy(variant_name) /\ VariantTemplate(variant_name.value) \in dir
    THEN Returned(VariantTemplate(variant_name.value))
    ELSE IF DefaultTemplate \in dir
    THEN Returned(DefaultTemplate)
    ELSE FileNotFound(<<DefaultTemplate>>)

\* resolve(templates_dir, explicit, variant_name)
TemplateResolve(dir, explicit, variant_name) ==
    IF Truthy(explicit)
    THEN IF explicit.value \in dir
         THEN Returned(explicit.value)
         ELSE FileNotFound(<<explicit.value>>)
    ELSE IF Truthy(variant_name) /\ VariantTemplate(variant_name.value) \in dir
    THEN Returned(VariantTemplate(variant_name.value))
    ELSE IF DefaultTemplate \in dir
    THEN Returned(DefaultTemplate)
    ELSE FileNotFound(IF Truthy(variant_name)
                      THEN <<VariantTemplate(variant_name.value), DefaultTemplate>>
                      ELSE <<DefaultTemplate>>)

notTemplateVars == <<topoVars, sortVars, genVars, lockingVars, resolveVars, mergeVars,
                     contentVars, pureVars, otherTemplateVars>>

InitTemplate ==
    /\ trDir \in SUBSET TemplateFiles
    /\ trExplicit \in ExplicitArgs
    /\ trVariant \in VariantArgs
    /\ trResult = NotCalled
    /\ TopoIdle /\ SortIdle /\ GenIdle /\ LockingIdle
    /\ ResolveIdle /\ MergeIdle /\ ContentIdle /\ PureIdle /\ OtherTemplateIdle

\* self.template_resolver.resolve(...)
TemplateCall ==
    /\ trResult = NotCalled
    /\ trResult' = TemplateResolve(trDir, trExplicit, trVariant)
    /\ UNCHANGED <<trDir, trExplicit, trVariant, notTemplateVars>>

NextTemplate == TemplateCall

SpecTemplate == InitTemplate /\ [][NextTemplate]_vars

\* A name is given: the argument is neither None nor the empty string.
NameGiven(x) == x # NoneStr /\ x # Some("")

\* C24: with an explicit name given, resolve returns that file if it exists
\* and raises otherwise, whether or not the variant-specific or the default
\* file exist; with no explicit name it returns the variant-specific file
\* if a variant name is given and that file exists, otherwise the default
\* file if it exists, and raises otherwise.
C24_TemplatePriority ==
    trResult # NotCalled =>
        IF NameGiven(trExplicit)
        THEN /\ trExplicit.value \in trDir =>
                   trResult.kind = "path" /\ trResult.path = trExplicit.value
             /\ trExplicit.value \notin trDir => trResult.kind = "error"
        ELSE IF NameGiven(trVariant) /\ VariantTemplate(trVariant.value) \in trDir
        THEN trResult.kind = "path" /\ trResult.path = VariantTemplate(trVariant.value)
        ELSE IF DefaultTemplate \in trDir
        THEN trResult.kind = "path" /\ trResult.path = DefaultTemplate
        ELSE trResult.kind = "error"

\* resolve has raised for an explicit name that does not exist, with the
\* variant-specific and the default file both there.
C24_Witness ==
    /\ trResult.kind = "error"
    /\ trExplicit = Some("custom.jinja2")
    /\ trVariant = Some("browser")
    /\ trDir = {VariantTemplate("browser"), DefaultTemplate}

(***************************************************************************)
(* The filter resolve_base_image (manager/rendering.py,                    *)
(* _resolve_base_image) and Image.full_qualified_base_image_name           *)
(* (manager/models.py).                                                    *)
(***************************************************************************)
ManagedNames == {"ubuntu", "python"}
ManagedTagLists == {<<>>, <<"24.04">>, <<"24.04", "22.04">>}
ManagedImages ==
    [name : ManagedNames, is_base_image : BOOLEAN, tags : ManagedTagLists]
SnapshotIds == {NoneStr, Some(""), Some("mr-12")}

\* A reference name:tag, or the None that stands for no reference.
NoneRef == [isNone |-> TRUE, name |-> "", tag |-> ""]
RefOf(name, tag) == [isNone |-> FALSE, name |-> name, tag |-> tag]

\* image.full_qualified_base_image_name
FullQualifiedBaseImageName(image) ==
    IF ~image.is_base_image THEN NoneRef
    ELSE IF Len(image.tags) # 1 THEN NoneRef
    ELSE RefOf(image.name, image.tags[1])

FilterNotCalled == [kind |-> "notcalled", ref |-> NoneRef, suffix |-> ""]
FilterRaised == [kind |-> "raised", ref |-> NoneRef, suffix |-> ""]

\* found = [i for i in ctx.all if i.name == name and i.is_base_image]
Found(all, name) ==
    {i \in 1..Len(all) : all[i].name = name /\ all[i].is_base_image}

\* impl(name): the value returned is base_ref, or f"{base_ref}-{snapshot_id}"
\* when a snapshot id is set.
ResolveBaseImage(all, snapshot_id, name) ==
    IF Cardinality(Found(all, name)) = 1
    THEN [kind |-> "returned",
          ref |-> FullQualifiedBaseImageName(all[CHOOSE i \in Found(all, name) : TRUE]),
          suffix |-> IF snapshot_id.set /\ snapshot_id.value # ""
                     THEN snapshot_id.value ELSE ""]
    ELSE FilterRaised

notBaseRefVars == <<topoVars, sortVars, genVars, lockingVars, resolveVars, mergeVars,
                    contentVars, pureVars, otherBaseRefVars>>

InitBaseRef ==
    /\ \E n \in 0..MaxManaged : brAll \in [1..n -> ManagedImages]
    /\ brName \in ManagedNames
    /\ brSnapshot \in SnapshotIds
    /\ brResult = FilterNotCalled
    /\ TopoIdle /\ SortIdle /\ GenIdle /\ LockingIdle
    /\ ResolveIdle /\ MergeIdle /\ ContentIdle /\ PureIdle /\ OtherBaseRefIdle

\* A template applies the filter to a name.
BaseRefCall ==
    /\ brResult = FilterNotCalled
    /\ brResult' = ResolveBaseImage(brAll, brSnapshot, brName)
    /\ UNCHANGED <<brAll, brName, brSnapshot, notBaseRefVars>>

NextBaseRef == BaseRefCall

SpecBaseRef == InitBaseRef /\ [][NextBaseRef]_vars

\* The managed images that have the name asked for and are flagged as base
\* image.
BaseImagesNamed == {i \in 1..Len(brAll) : brAll[i].name = brName /\ brAll[i].is_base_image}

\* C25: the lookup of a base-image name either yields a concrete name:tag
\* reference of the one managed image of that name flagged as base image, or
\* fails; with no or with several such images it fails, and it never
\* returns None or a reference built from a missing value.
C25_BaseImageLookupNeverNone ==
    brResult # FilterNotCalled =>
        /\ brResult.kind \in {"returned", "raised"}
        /\ Cardinality(BaseImagesNamed) # 1 => brResult.kind = "raised"
        /\ brResult.kind = "returned" =>
              /\ ~brResult.ref.isNone
              /\ \E i \in BaseImagesNamed :
                    /\ brResult.ref.name = brAll[i].name
                    /\ \E t \in 1..Len(brAll[i].tags) : brResult.ref.tag = brAll[i].tags[t]

\* The same when the one base image of the name has exactly one tag.
BaseImageLookupOfSingleTag ==
    (\A i \in BaseImagesNamed : Len(brAll[i].tags) = 1) => C25_BaseImageLookupNeverNone

(***************************************************************************)
(* The commands that compute the build order (manager/__main__.py): each   *)
(* calls sort_images, directly or through get_all_image_refs and           *)
(* expand_image_refs.                                                      *)
(***************************************************************************)
Commands == {"generate", "reports", "build", "retag", "manifest", "test",
             "sbom", "lock", "generate-ci"}

\* The commands whose call is inside try ... except CyclicDependencyError.
CatchesCycle(cmd) == cmd \notin {"reports", "generate-ci"}

CommandNotRun == [cmd |-> "", kind |-> "notrun", code |-> 0, reported |-> FALSE]

\* A command from the sort on.  A caught CyclicDependencyError is printed
\* and the command returns 1; an error that is not caught leaves main as an
\* exception.  Without an error the command goes on with its own work.
CommandOutcome(cmd, res) ==
    IF res.status = "ok"
    THEN [cmd |-> cmd, kind |-> "continues", code |-> 0, reported |-> FALSE]
    ELSE IF res.status = "CyclicDependencyError" /\ CatchesCycle(cmd)
    THEN [cmd |-> cmd, kind |-> "returned", code |-> 1, reported |-> TRUE]
    ELSE [cmd |-> cmd, kind |-> "unhandled", code |-> 1, reported |-> FALSE]

notCliVars == <<topoVars, genVars, lockingVars, resolveVars, mergeVars,
                contentVars, pureVars, otherCliVars>>

InitCli ==
    /\ images = <<>>
    /\ sortResult = NotRun
    /\ cliOutcome = CommandNotRun
    /\ TopoIdle /\ GenIdle /\ LockingIdle
    /\ ResolveIdle /\ MergeIdle /\ ContentIdle /\ PureIdle /\ OtherCliIdle

\* One round of the loading loop of a command.
CliLoadImage ==
    /\ cliOutcome = CommandNotRun
    /\ Len(images) < MaxImages
    /\ \E n \in NextNames(images),
          sh \in ShapesUpTo(MaxRefs - TotalRefs(images)) :
            images' = AppendImage(images, n, sh)
    /\ UNCHANGED <<sortResult, cliOutcome, notCliVars>>

\* The command sorts the loaded images.
CliSort(cmd) ==
    /\ cliOutcome = CommandNotRun
    /\ LET d == ExtractDependencies(images, EmptyDict)
       IN \E iter \in IterOrders(d.keys, d.deps) :
            /\ sortResult' = SortImages(images, iter)
            /\ cliOutcome' = CommandOutcome(cmd, SortImages(images, iter))
    /\ UNCHANGED <<images, notCliVars>>

NextCli == CliLoadImage \/ \E cmd \in Commands : CliSort(cmd)

SpecCli == InitCli /\ [][NextCli]_vars

\* C26: with a dependency cycle among the managed images, no command that
\* computes the build order ends as an unhandled exception: it reports the
\* cycle and ends with a non-zero exit code.
C26_CycleIsReportedByEveryCommand ==
    (cliOutcome # CommandNotRun /\ HasCycle(UnionDeps(images))) =>
        /\ cliOutcome.kind = "returned"
        /\ cliOutcome.reported
        /\ cliOutcome.code # 0

\* The same for the commands that catch the error, and for the cycles of the
\* dependency map that extract_dependencies hands to topological_sort.
CaughtCycleIsReported ==
    (cliOutcome # CommandNotRun /\ CatchesCycle(cliOutcome.cmd)
       /\ HasCycle(ExtractDependencies(images, EmptyDict))) =>
        /\ cliOutcome.kind = "returned"
        /\ cliOutcome.reported
        /\ cliOutcome.code # 0

(***************************************************************************)
(* What a run of run_lock keeps of the lock file it found.                 *)
(***************************************************************************)
\* The run that ended last wrote the lock file.
RunWroteFile == RunEnded /\ lexits[lrun] = 0

\* The bases the loop of the run reached with a known codename.
ProcessedBases ==
    {lockEnv.tags[i] : i \in 1..Len(lockEnv.tags)} \cap lockEnv.known

\* C27: whenever a run_lock ends by writing the lock file, every base section
\* that had a non-empty package map in the file before the run is in the file
\* after it, unchanged, the sections of bases whose codename lookup failed
\* and of bases no given tag resolves to included.
C27_WriteKeepsEveryLockedSection ==
    RunWroteFile => \A b \in LockedBefore : lockFile[b] = fileBefore[b]

\* The same for the bases that a given tag resolves to and whose codename
\* is known.
WriteKeepsLockedSectionsOfProcessedBases ==
    RunWroteFile =>
        \A b \in LockedBefore \cap ProcessedBases : lockFile[b] = fileBefore[b]

(***************************************************************************)
(* Pinning during generate: read_lock_file and read_base_digest            *)
(* (manager/locking.py) as cmd_generate applies them to a rendered build   *)
(* file.  A package map is the set of its (package, version) pairs.        *)
(***************************************************************************)
\* The version a section of a base holds for every package it locks, and
\* the one of a file in the legacy format.
LockedVersion == ("ubuntu:22.04" :> "7.81") @@ ("ubuntu:24.04" :> "8.5")
LegacyVersion == "7.68"
LockedDigest == ("ubuntu:22.04" :> "sha256:22") @@ ("ubuntu:24.04" :> "sha256:24")

\* The section of base b that locks the packages S, with or without digest.
LockSection(b, S, withDigest) ==
    [ref |-> b, packages |-> {<<p, LockedVersion[b]>> : p \in S},
     digest |-> IF withDigest THEN Some(LockedDigest[b]) ELSE NoneStr]

\* The lock files: none, an empty document, the multi-base format with its
\* sections in file order, the legacy format.
LockFiles ==
    {[kind |-> "missing", bases |-> <<>>, packages |-> {}],
     [kind |-> "empty", bases |-> <<>>, packages |-> {}]}
    \cup {[kind |-> "multi", bases |-> bs, packages |-> {}] :
            bs \in UNION {{[i \in 1..Len(t) |-> LockSection(t[i], S[t[i]], dg[t[i]])] :
                              S \in [Bases -> SUBSET Pkgs], dg \in [Bases -> BOOLEAN]} :
                          t \in InjectiveSeqs(Bases, Cardinality(Bases))}}
    \cup {[kind |-> "legacy", bases |-> <<>>,
           packages |-> {<<p, LegacyVersion>> : p \in S}] : S \in SUBSET Pkgs}

\* base_ref of a build file: None without FROM line, else "image:tag".
BaseRefs == {NoneStr} \cup {Some(b) : b \in Bases \cup {"debian:12"}}

\* The position of the section of base_ref among bases, 0 when there is none.
SectionIndex(bases, base_ref) ==
    IF \E i \in 1..Len(bases) : bases[i].ref = base_ref
    THEN CHOOSE i \in 1..Len(bases) : bases[i].ref = base_ref
    ELSE 0

\* read_lock_file(lock_path, base_ref)
ReadLockFile(lock, base_ref) ==
    IF lock.kind \in {"missing", "empty"} THEN {}
    ELSE IF lock.kind = "multi"
    THEN IF IsNotNone(base_ref) /\ SectionIndex(lock.bases, base_ref.value) # 0
         THEN lock.bases[SectionIndex(lock.bases, base_ref.value)].packages
         ELSE IF lock.bases # <<>> THEN lock.bases[1].packages
         ELSE {}
    ELSE lock.packages

\* read_base_digest(lock_path, base_ref) for the formats above; the legacy
\* format of the model has no _meta.base.
ReadBaseDigest(lock, base_ref) ==
    IF lock.kind = "multi" /\ IsNotNone(base_ref)
       /\ SectionIndex(lock.bases, base_ref.value) # 0
    THEN lock.bases[SectionIndex(lock.bases, base_ref.value)].digest
    ELSE NoneStr

\* rewrite_apt_install: every installed package the map holds is pinned.
RewriteAptInstall(wanted, packages) == {pv \in packages : pv[1] \in wanted}

NotGenerated == [written |-> FALSE, pins |-> {}, digest |-> NoneStr]

notPinVars == <<topoVars, sortVars, genVars, lockingVars, resolveVars, mergeVars,
                contentVars, pureVars, otherPinVars>>

InitPin ==
    /\ pinLock \in LockFiles
    /\ pinBase \in BaseRefs
    /\ pinWanted \in SUBSET Pkgs
    /\ pinUseLock \in BOOLEAN
    /\ pinResult = NotGenerated
    /\ TopoIdle /\ SortIdle /\ GenIdle /\ LockingIdle
    /\ ResolveIdle /\ MergeIdle /\ ContentIdle /\ PureIdle /\ OtherPinIdle

\* generate writes the build file of a tag: if use_lock and has_lock, the
\* packages and the digest of the lock are applied to the rendered text.
PinGenerate ==
    /\ pinResult = NotGenerated
    /\ pinResult' =
          IF pinUseLock /\ pinLock.kind # "missing"
          THEN [written |-> TRUE,
                pins |-> RewriteAptInstall(pinWanted, ReadLockFile(pinLock, pinBase)),
                digest |-> ReadBaseDigest(pinLock, pinBase)]
          ELSE [written |-> TRUE, pins |-> {}, digest |-> NoneStr]
    /\ UNCHANGED <<pinLock, pinBase, pinWanted, pinUseLock, notPinVars>>

NextPin == PinGenerate

SpecPin == InitPin /\ [][NextPin]_vars

\* The packages of the section of the lock whose key is the base reference of
\* the build file; none when there is no such section.
OwnSectionPackages ==
    IF IsNotNone(pinBase)
       /\ \E i \in 1..Len(pinLock.bases) : pinLock.bases[i].ref = pinBase.value
    THEN UNION {pinLock.bases[i].packages :
                  i \in {j \in 1..Len(pinLock.bases) : pinLock.bases[j].ref = pinBase.value}}
    ELSE {}

\* C28: with a lock file in the multi-base format, the versions pinned into
\* a tag's build file come only from the section whose key is the tag's own
\* base reference; without such a section no package is pinned.
C28_PinsComeFromOwnBaseSection ==
    (pinResult.written /\ pinLock.kind = "multi") =>
        pinResult.pins \subseteq OwnSectionPackages

\* The digest pinned is the one of the own section, in every case.
DigestComesFromOwnBaseSection ==
    (pinResult.written /\ IsNotNone(pinResult.digest)) =>
        /\ IsNotNone(pinBase)
        /\ \E i \in 1..Len(pinLock.bases) :
              pinLock.bases[i].ref = pinBase.value
              /\ pinLock.bases[i].digest = pinResult.digest

(***************************************************************************)
(* The effective base of a build file: _get_base_ref and                   *)
(* extract_base_image (manager/locking.py).  A build file is               *)
(* dist/<image>/1/Dockerfile and is named by its image.                    *)
(***************************************************************************)
BuildFiles == {"a", "b"}

\* extract_base_image: the (image, tag) of the last FROM line, the tag being
\* "latest" when the line has none; None without FROM line.
NoFrom == [set |-> FALSE, image |-> "", tag |-> ""]
FromOf(image, tag) == [set |-> TRUE, image |-> image, tag |-> tag]
ExtractBaseImage ==
    {NoFrom, FromOf("ubuntu", "24.04"), FromOf("ubuntu", "sha256:aa"),
     FromOf("debian", "12"), FromOf("ghcr.io/org/base", "latest")}
    \cup {FromOf(image, "1") : image \in BuildFiles \cup {"gone"}}

\* extract_distro_from_image of an image.tar: no tar, an Ubuntu 22.04, or
\* another distribution.
TarKinds == {"absent", "ubuntu", "other"}
DistroRef == "ubuntu:22.04"

\* "/" not in image and image not in ("alpine", "debian")
IsLocalImage(image) == image \in BuildFiles \cup {"gone"}

Pending == [kind |-> "pending", ref |-> ""]
ReturnedRef(ref) == [kind |-> "returned", ref |-> ref]
ReturnedNone == [kind |-> "returned", ref |-> ""]
RecursionError == [kind |-> "RecursionError", ref |-> ""]

\* One call of _get_base_ref on build file f: what it returns, or the build
\* file it calls itself on.
BaseRefStep(files, tars, f) ==
    LET base == files[f]
    IN IF ~base.set THEN ReturnedNone
       ELSE IF base.image = "ubuntu"
       THEN IF base.tag = "sha256:aa"
            THEN (IF tars[f] = "ubuntu" THEN ReturnedRef(DistroRef) ELSE ReturnedNone)
            ELSE ReturnedRef("ubuntu:24.04")
       ELSE IF IsLocalImage(base.image)
       THEN IF base.image \in BuildFiles /\ tars[base.image] = "ubuntu"
            THEN ReturnedRef(DistroRef)
            ELSE IF base.image \in BuildFiles
            THEN [kind |-> "recurse", ref |-> base.image]
            ELSE ReturnedNone
       ELSE ReturnedNone

notChainVars == <<topoVars, sortVars, genVars, lockingVars, resolveVars, mergeVars,
                  contentVars, pureVars, otherChainVars>>

InitChain ==
    /\ distFiles \in [BuildFiles -> ExtractBaseImage]
    /\ distTars \in [BuildFiles -> TarKinds]
    /\ gbCur \in BuildFiles
    /\ gbDepth = 0
    /\ gbResult = Pending
    /\ TopoIdle /\ SortIdle /\ GenIdle /\ LockingIdle
    /\ ResolveIdle /\ MergeIdle /\ ContentIdle /\ PureIdle /\ OtherChainIdle

\* run_lock calls _get_base_ref on the build file of a tag.
ChainCall ==
    /\ gbDepth = 0
    /\ gbResult = Pending
    /\ gbDepth' = 1
    /\ UNCHANGED <<distFiles, distTars, gbCur, gbResult, notChainVars>>

\* The innermost call runs: it returns, and its value is returned by every
\* call below it, or it calls itself on the build file of its base; the
\* call that would exceed the recursion limit raises RecursionError.
ChainStep ==
    /\ gbDepth >= 1
    /\ gbResult = Pending
    /\ LET r == BaseRefStep(distFiles, distTars, gbCur)
       IN IF r.kind = "recurse"
          THEN IF gbDepth < RecursionLimit
               THEN gbCur' = r.ref /\ gbDepth' = gbDepth + 1 /\ gbResult' = gbResult
               ELSE gbCur' = gbCur /\ gbDepth' = 0 /\ gbResult' = RecursionError
          ELSE gbCur' = gbCur /\ gbDepth' = 0 /\ gbResult' = r
    /\ UNCHANGED <<distFiles, distTars, notChainVars>>

NextChain == ChainCall \/ ChainStep

SpecChain == InitChain /\ [][NextChain]_vars

\* The build files reached from f by following FROM lines that are followed.
RECURSIVE FollowedFrom(_)
FollowedFrom(S) ==
    LET T == S \cup {BaseRefStep(distFiles, distTars, f).ref :
                       f \in {g \in S : BaseRefStep(distFiles, distTars, g).kind = "recurse"}}
    IN IF T = S THEN S ELSE FollowedFrom(T)

\* The FROM lines followed from f lead back to a build file already passed.
ChainHasCycle(f) ==
    \E g \in FollowedFrom({f}) :
        /\ BaseRefStep(distFiles, distTars, g).kind = "recurse"
        /\ g \in FollowedFrom({BaseRefStep(distFiles, distTars, g).ref})

\* C29: the lookup of the effective base of a build file ends, for every
\* set of build files, by returning a distribution reference or None, also
\* when the FROM lines refer to each other in a cycle or a build file
\* refers to itself.
C29_BaseLookupReturns == gbResult.kind \in {"pending", "returned"}

\* The same for the build files whose chain of FROM lines has no cycle; the
\* calls on the stack are then at most the build files.
BaseLookupReturnsWithoutCycle ==
    ~ChainHasCycle(gbCur) =>
        /\ gbResult.kind \in {"pending", "returned"}
        /\ gbDepth <= Cardinality(BuildFiles)

(***************************************************************************)
(* Runs of generate over changing source rootfs directories: for a tag,    *)
(* cmd_generate merges the rootfs directories of image, version and        *)
(* variant into <tag_out_path>/rootfs when they hold content               *)
(* (manager/__main__.py, manager/rootfs.py).  dist is not cleared.         *)
(***************************************************************************)
\* collect_rootfs_paths: image, version, variant.
Levels == 1..3

NoRootfs == [exists |-> FALSE, tree |-> EmptyTree]
RootfsOf(tree) == [exists |-> TRUE, tree |-> tree]

\* has_rootfs_content over the collected paths.
SourcesHaveContent(srcs) ==
    \E i \in Levels, p \in RootfsPaths : srcs[i][p].kind \in {"file", "link"}

\* The loop over rglob("*") of one source, the items in the order given.
RECURSIVE CopyItems(_, _, _)
CopyItems(tree, src, order) ==
    IF order = <<>> THEN [ok |-> TRUE, tree |-> tree]
    ELSE LET r == CopyItem(tree, Head(order), src[Head(order)])
         IN IF r.ok THEN CopyItems(r.tree, src, Tail(order)) ELSE r

\* merge_rootfs(rootfs_paths, dest): the sources in list order over what
\* dest holds; orders[i] is the order in which rglob yields source i.
RECURSIVE MergeRootfs(_, _, _, _)
MergeRootfs(tree, srcs, orders, i) ==
    IF i > Len(srcs) THEN [ok |-> TRUE, tree |-> tree]
    ELSE LET r == CopyItems(tree, srcs[i], orders[i])
         IN IF r.ok THEN MergeRootfs(r.tree, srcs, orders, i + 1) ELSE r

notRegenVars == <<topoVars, sortVars, genVars, lockingVars, resolveVars, mergeVars,
                  contentVars, pureVars, otherRegenVars>>

InitRegen ==
    /\ srcRootfs = [i \in Levels |-> [p \in RootfsPaths |-> NoEntry]]
    /\ ctxRootfs = NoRootfs
    /\ regenStatus = "changed"
    /\ edits = 0
    /\ generates = 0
    /\ TopoIdle /\ SortIdle /\ GenIdle /\ LockingIdle
    /\ ResolveIdle /\ MergeIdle /\ ContentIdle /\ PureIdle /\ OtherRegenIdle

\* An entry of a source rootfs directory is added, changed or removed.
EditSource ==
    /\ edits < MaxEdits
    /\ \E i \in Levels, p \in RootfsPaths : \E e \in SourceEntries(i) :
          /\ e # srcRootfs[i][p]
          /\ srcRootfs' = [srcRootfs EXCEPT ![i][p] = e]
    /\ edits' = edits + 1
    /\ regenStatus' = "changed"
    /\ UNCHANGED <<ctxRootfs, generates, notRegenVars>>

\* One run of generate for the tag: rootfs_paths = collect_rootfs_paths(...);
\* has_rootfs = has_rootfs_content(rootfs_paths); if has_rootfs:
\* merge_rootfs(rootfs_paths, tag_out_path / "rootfs").
GenerateRun ==
    /\ generates < MaxGenerates
    /\ generates' = generates + 1
    /\ IF SourcesHaveContent(srcRootfs)
       THEN \E orders \in [Levels -> UNION {Orderings(S) : S \in SUBSET RootfsPaths}] :
               /\ \A i \in Levels : Range(orders[i]) = ItemsOf(srcRootfs[i])
               /\ LET r == MergeRootfs(ctxRootfs.tree, srcRootfs, orders, 1)
                  IN /\ ctxRootfs' = RootfsOf(r.tree)
                     /\ regenStatus' = IF r.ok THEN "generated" ELSE "raised"
       ELSE /\ ctxRootfs' = ctxRootfs
            /\ regenStatus' = "generated"
    /\ UNCHANGED <<srcRootfs, edits, notRegenVars>>

NextRegen == EditSource \/ GenerateRun

SpecRegen == InitRegen /\ [][NextRegen]_vars

\* The overlay of the sources in the order image, version, variant: at
\* every path the entry of the last source that has one.
OverlayOf(srcs) ==
    [p \in DestPaths |->
        IF p \in RootfsPaths /\ \E i \in Levels : srcs[i][p].kind # "none"
        THEN srcs[CHOOSE i \in Levels :
                    /\ srcs[i][p].kind # "none"
                    /\ \A j \in Levels : srcs[j][p].kind # "none" => j <= i][p]
        ELSE NoEntry]

\* C30: after any sequence of generate runs and of additions, changes and
\* removals in the source rootfs directories, the rootfs tree of the tag's
\* build context is the overlay of the current sources in the order
\* image, version, variant, and is absent when the sources hold no file or
\* symlink: nothing an earlier run wrote survives once no source has it.
C30_ContextRootfsIsOverlayOfCurrentSources ==
    regenStatus = "generated" =>
        IF SourcesHaveContent(srcRootfs)
        THEN ctxRootfs = RootfsOf(OverlayOf(srcRootfs))
        ELSE ctxRootfs = NoRootfs

\* The sources hold regular files and directories at paths of their own.
PlainSources ==
    \A p \in RootfsPaths :
        /\ \A i \in Levels : srcRootfs[i][p].kind # "link"
        /\ (\E i \in Levels : srcRootfs[i][p].kind = "dir") =>
              \A i \in Levels : srcRootfs[i][p].kind \in {"dir", "none"}

\* The same for the first run of generate over such sources.
FirstGenerateWritesOverlay ==
    (regenStatus = "generated" /\ generates = 1 /\ PlainSources) =>
        IF SourcesHaveContent(srcRootfs)
        THEN ctxRootfs = RootfsOf(OverlayOf(srcRootfs))
        ELSE ctxRootfs = NoRootfs

====
